---- MODULE Spec2Model ----
(***************************************************************************)
(* Model of the spng wrapper (spng/src/lib.rs, raw.rs, error.rs): the      *)
(* lifecycle of one native decoding handle, the read callback that feeds   *)
(* the engine from an io::Read source, and the read-header / size /        *)
(* decode-once protocol of Decoder and Reader.  The native engine          *)
(* (libspng) is not part of the wrapper's sources; the operators named     *)
(* spng_* describe it as the wrapper's documentation and the specification *)
(* describe it.                                                            *)
(***************************************************************************)
EXTENDS Integers, Sequences, FiniteSets, TLC

\* ------------------------------------------------------------------ bounds
\* Bytes the engine asks the callback for while reading signature + IHDR.
HdrLen == 2
\* Bytes the engine asks the callback for while decoding the image data.
BodyLen == 2
\* Largest count one read() of the source returns.
MaxChunk == 2
\* Largest image width / height in a header.
MaxDim == 2
\* Number of RawContext calls a direct user of RawContext makes, the size
\* queries apart.
MaxOps == 4
\* Number of Reader::next_frame calls.
MaxFrames == 2
\* Number of RawContext::decoded_image_size calls.
MaxSizeCalls == 2
\* Largest byte count the engine's size_t holds (a size_t scaled down to
\* the image sizes MaxDim allows, so that the largest image overflows it).
SizeMax == 31
\* Status codes tried below the engine's smallest and above its largest.
ExtraCodes == 5
\* Largest length requested from read_fn when it is called on its own.
CbLen == 3
\* decode_row / decode_scanline calls made in one session, and the bytes of
\* input one scanline takes.
MaxRows == 3
\* set_png_stream calls the second context of a process makes.
MaxBinds == 2
RowLen == 1

\* --------------------------------------------------------------- u32
\* A u32 as its two 16-bit halves, value hi * 2^16 + lo: the limits reach
\* past 2^31 - 1, the largest integer the checker computes with.
U32(n) == [hi |-> n \div 65536, lo |-> n % 65536]
U32_MAX == [hi |-> 65535, lo |-> 65535]
U32Half(x) == [hi |-> x.hi \div 2, lo |-> (x.lo + 65536 * (x.hi % 2)) \div 2]
U32Pred(x) ==
    IF x.lo > 0 THEN [x EXCEPT !.lo = x.lo - 1]
    ELSE [hi |-> x.hi - 1, lo |-> 65535]
U32Succ(x) ==
    IF x.lo < 65535 THEN [x EXCEPT !.lo = x.lo + 1]
    ELSE [hi |-> x.hi + 1, lo |-> 0]
U32Gt(x, y) == x.hi > y.hi \/ (x.hi = y.hi /\ x.lo > y.lo)

\* --------------------------------------------------------------- constants
\* const PNG_U32_MAX: u32 = std::u32::MAX / 2 - 1
PNG_U32_MAX == U32Pred(U32Half(U32_MAX))
\* "these may not be larger than (2^31)-1"
SPNG_LIMIT_CEILING == U32(2147483647)

Min(a, b) == IF a < b THEN a ELSE b

\* ------------------------------------------------------------ error.rs
\* The values of the engine's status constants (enum spng_errno of the
\* bindings): SPNG_IO_ERROR = -2, SPNG_IO_EOF = -1, SPNG_OK = 0, then the
\* error codes counted up from SPNG_EINVAL = 1.
spng_errno ==
    "SPNG_IO_ERROR" :> (0 - 2) @@
    "SPNG_IO_EOF" :> (0 - 1) @@
    "SPNG_OK" :> 0 @@
    "SPNG_EINVAL" :> 1 @@
    "SPNG_EMEM" :> 2 @@
    "SPNG_EOVERFLOW" :> 3 @@
    "SPNG_ESIGNATURE" :> 4 @@
    "SPNG_EWIDTH" :> 5 @@
    "SPNG_EHEIGHT" :> 6 @@
    "SPNG_EUSER_WIDTH" :> 7 @@
    "SPNG_EUSER_HEIGHT" :> 8 @@
    "SPNG_EBIT_DEPTH" :> 9 @@
    "SPNG_ECOLOR_TYPE" :> 10 @@
    "SPNG_ECOMPRESSION_METHOD" :> 11 @@
    "SPNG_EFILTER_METHOD" :> 12 @@
    "SPNG_EINTERLACE_METHOD" :> 13 @@
    "SPNG_EIHDR_SIZE" :> 14 @@
    "SPNG_ENOIHDR" :> 15 @@
    "SPNG_ECHUNK_POS" :> 16 @@
    "SPNG_ECHUNK_SIZE" :> 17 @@
    "SPNG_ECHUNK_CRC" :> 18 @@
    "SPNG_ECHUNK_TYPE" :> 19 @@
    "SPNG_ECHUNK_UNKNOWN_CRITICAL" :> 20 @@
    "SPNG_EDUP_PLTE" :> 21 @@
    "SPNG_EDUP_CHRM" :> 22 @@
    "SPNG_EDUP_GAMA" :> 23 @@
    "SPNG_EDUP_ICCP" :> 24 @@
    "SPNG_EDUP_SBIT" :> 25 @@
    "SPNG_EDUP_SRGB" :> 26 @@
    "SPNG_EDUP_BKGD" :> 27 @@
    "SPNG_EDUP_HIST" :> 28 @@
    "SPNG_EDUP_TRNS" :> 29 @@
    "SPNG_EDUP_PHYS" :> 30 @@
    "SPNG_EDUP_TIME" :> 31 @@
    "SPNG_EDUP_OFFS" :> 32 @@
    "SPNG_EDUP_EXIF" :> 33 @@
    "SPNG_ECHRM" :> 34 @@
    "SPNG_EPLTE_IDX" :> 35 @@
    "SPNG_ETRNS_COLOR_TYPE" :> 36 @@
    "SPNG_ETRNS_NO_PLTE" :> 37 @@
    "SPNG_EGAMA" :> 38 @@
    "SPNG_EICCP_NAME" :> 39 @@
    "SPNG_EICCP_COMPRESSION_METHOD" :> 40 @@
    "SPNG_ESBIT" :> 41 @@
    "SPNG_ESRGB" :> 42 @@
    "SPNG_ETEXT" :> 43 @@
    "SPNG_ETEXT_KEYWORD" :> 44 @@
    "SPNG_EZTXT" :> 45 @@
    "SPNG_EZTXT_COMPRESSION_METHOD" :> 46 @@
    "SPNG_EITXT" :> 47 @@
    "SPNG_EITXT_COMPRESSION_FLAG" :> 48 @@
    "SPNG_EITXT_COMPRESSION_METHOD" :> 49 @@
    "SPNG_EITXT_LANG_TAG" :> 50 @@
    "SPNG_EITXT_TRANSLATED_KEY" :> 51 @@
    "SPNG_EBKGD_NO_PLTE" :> 52 @@
    "SPNG_EBKGD_PLTE_IDX" :> 53 @@
    "SPNG_EHIST_NO_PLTE" :> 54 @@
    "SPNG_EPHYS" :> 55 @@
    "SPNG_ESPLT_NAME" :> 56 @@
    "SPNG_ESPLT_DUP_NAME" :> 57 @@
    "SPNG_ESPLT_DEPTH" :> 58 @@
    "SPNG_ETIME" :> 59 @@
    "SPNG_EOFFS" :> 60 @@
    "SPNG_EEXIF" :> 61 @@
    "SPNG_EIDAT_TOO_SHORT" :> 62 @@
    "SPNG_EIDAT_STREAM" :> 63 @@
    "SPNG_EZLIB" :> 64 @@
    "SPNG_EFILTER" :> 65 @@
    "SPNG_EBUFSIZ" :> 66 @@
    "SPNG_EIO" :> 67 @@
    "SPNG_EOF" :> 68 @@
    "SPNG_EBUF_SET" :> 69 @@
    "SPNG_EBADSTATE" :> 70 @@
    "SPNG_EFMT" :> 71 @@
    "SPNG_EFLAGS" :> 72 @@
    "SPNG_ECHUNKAVAIL" :> 73 @@
    "SPNG_ENCODE_ONLY" :> 74 @@
    "SPNG_EOI" :> 75 @@
    "SPNG_ENOPLTE" :> 76 @@
    "SPNG_ECHUNK_LIMITS" :> 77 @@
    "SPNG_EZLIB_INIT" :> 78 @@
    "SPNG_ECHUNK_STDLEN" :> 79 @@
    "SPNG_EINTERNAL" :> 80 @@
    "SPNG_ECTXTYPE" :> 81 @@
    "SPNG_ENOSRC" :> 82 @@
    "SPNG_ENODST" :> 83 @@
    "SPNG_EOPSTATE" :> 84 @@
    "SPNG_ENOTFINAL" :> 85

\* enum Error, #[repr(i32)]: variant :> the constant that is its discriminant.
Discriminant ==
    "IoError" :> "SPNG_IO_ERROR" @@
    "IoEof" :> "SPNG_IO_EOF" @@
    "Inval" :> "SPNG_EINVAL" @@
    "Mem" :> "SPNG_EMEM" @@
    "Overflow" :> "SPNG_EOVERFLOW" @@
    "Signature" :> "SPNG_ESIGNATURE" @@
    "Width" :> "SPNG_EWIDTH" @@
    "Height" :> "SPNG_EHEIGHT" @@
    "UserWidth" :> "SPNG_EUSER_WIDTH" @@
    "UserHeight" :> "SPNG_EUSER_HEIGHT" @@
    "BitDepth" :> "SPNG_EBIT_DEPTH" @@
    "ColorType" :> "SPNG_ECOLOR_TYPE" @@
    "CompressionMethod" :> "SPNG_ECOMPRESSION_METHOD" @@
    "FilterMethod" :> "SPNG_EFILTER_METHOD" @@
    "InterlaceMethod" :> "SPNG_EINTERLACE_METHOD" @@
    "IhdrSize" :> "SPNG_EIHDR_SIZE" @@
    "Noihdr" :> "SPNG_ENOIHDR" @@
    "ChunkPos" :> "SPNG_ECHUNK_POS" @@
    "ChunkSize" :> "SPNG_ECHUNK_SIZE" @@
    "ChunkCrc" :> "SPNG_ECHUNK_CRC" @@
    "ChunkType" :> "SPNG_ECHUNK_TYPE" @@
    "ChunkUnknownCritical" :> "SPNG_ECHUNK_UNKNOWN_CRITICAL" @@
    "DupPlte" :> "SPNG_EDUP_PLTE" @@
    "DupChrm" :> "SPNG_EDUP_CHRM" @@
    "DupGama" :> "SPNG_EDUP_GAMA" @@
    "DupIccp" :> "SPNG_EDUP_ICCP" @@
    "DupSbit" :> "SPNG_EDUP_SBIT" @@
    "DupSrgb" :> "SPNG_EDUP_SRGB" @@
    "DupBkgd" :> "SPNG_EDUP_BKGD" @@
    "DupHist" :> "SPNG_EDUP_HIST" @@
    "DupTrns" :> "SPNG_EDUP_TRNS" @@
    "DupPhys" :> "SPNG_EDUP_PHYS" @@
    "DupTime" :> "SPNG_EDUP_TIME" @@
    "DupOffs" :> "SPNG_EDUP_OFFS" @@
    "DupExif" :> "SPNG_EDUP_EXIF" @@
    "Chrm" :> "SPNG_ECHRM" @@
    "PlteIdx" :> "SPNG_EPLTE_IDX" @@
    "TrnsColorType" :> "SPNG_ETRNS_COLOR_TYPE" @@
    "TrnsNoPlte" :> "SPNG_ETRNS_NO_PLTE" @@
    "Gama" :> "SPNG_EGAMA" @@
    "IccpName" :> "SPNG_EICCP_NAME" @@
    "IccpCompressionMethod" :> "SPNG_EICCP_COMPRESSION_METHOD" @@
    "Sbit" :> "SPNG_ESBIT" @@
    "Srgb" :> "SPNG_ESRGB" @@
    "Text" :> "SPNG_ETEXT" @@
    "TextKeyword" :> "SPNG_ETEXT_KEYWORD" @@
    "Ztxt" :> "SPNG_EZTXT" @@
    "ZtxtCompressionMethod" :> "SPNG_EZTXT_COMPRESSION_METHOD" @@
    "Itxt" :> "SPNG_EITXT" @@
    "ItxtCompressionFlag" :> "SPNG_EITXT_COMPRESSION_FLAG" @@
    "ItxtCompressionMethod" :> "SPNG_EITXT_COMPRESSION_METHOD" @@
    "ItxtLangTag" :> "SPNG_EITXT_LANG_TAG" @@
    "ItxtTranslatedKey" :> "SPNG_EITXT_TRANSLATED_KEY" @@
    "BkgdNoPlte" :> "SPNG_EBKGD_NO_PLTE" @@
    "BkgdPlteIdx" :> "SPNG_EBKGD_PLTE_IDX" @@
    "HistNoPlte" :> "SPNG_EHIST_NO_PLTE" @@
    "Phys" :> "SPNG_EPHYS" @@
    "SpltName" :> "SPNG_ESPLT_NAME" @@
    "SpltDupName" :> "SPNG_ESPLT_DUP_NAME" @@
    "SpltDepth" :> "SPNG_ESPLT_DEPTH" @@
    "Time" :> "SPNG_ETIME" @@
    "Offs" :> "SPNG_EOFFS" @@
    "Exif" :> "SPNG_EEXIF" @@
    "IdatTooShort" :> "SPNG_EIDAT_TOO_SHORT" @@
    "IdatStream" :> "SPNG_EIDAT_STREAM" @@
    "Zlib" :> "SPNG_EZLIB" @@
    "Filter" :> "SPNG_EFILTER" @@
    "Bufsiz" :> "SPNG_EBUFSIZ" @@
    "Io" :> "SPNG_EIO" @@
    "Eof" :> "SPNG_EOF" @@
    "BufSet" :> "SPNG_EBUF_SET" @@
    "Badstate" :> "SPNG_EBADSTATE" @@
    "Fmt" :> "SPNG_EFMT" @@
    "Flags" :> "SPNG_EFLAGS" @@
    "Chunkavail" :> "SPNG_ECHUNKAVAIL" @@
    "NcodeOnly" :> "SPNG_ENCODE_ONLY" @@
    "Oi" :> "SPNG_EOI" @@
    "Noplte" :> "SPNG_ENOPLTE" @@
    "ChunkLimits" :> "SPNG_ECHUNK_LIMITS" @@
    "ZlibInit" :> "SPNG_EZLIB_INIT" @@
    "ChunkStdlen" :> "SPNG_ECHUNK_STDLEN" @@
    "Internal" :> "SPNG_EINTERNAL" @@
    "CtxType" :> "SPNG_ECTXTYPE" @@
    "NoSrc" :> "SPNG_ENOSRC" @@
    "NoDst" :> "SPNG_ENODST" @@
    "OpState" :> "SPNG_EOPSTATE" @@
    "NotFinal" :> "SPNG_ENOTFINAL"

\* `*self as i32` of an Error
as_i32_inval(k) == spng_errno["SPNG_EINVAL"]

as_i32(k) == spng_errno[Discriminant[k]]

\* The arms of check_err's match, engine status constant :> Error variant.
ErrTable ==
    "SPNG_IO_ERROR" :> "IoError" @@
    "SPNG_IO_EOF" :> "IoEof" @@
    "SPNG_EINVAL" :> "Inval" @@
    "SPNG_EMEM" :> "Mem" @@
    "SPNG_EOVERFLOW" :> "Overflow" @@
    "SPNG_ESIGNATURE" :> "Signature" @@
    "SPNG_EWIDTH" :> "Width" @@
    "SPNG_EHEIGHT" :> "Height" @@
    "SPNG_EUSER_WIDTH" :> "UserWidth" @@
    "SPNG_EUSER_HEIGHT" :> "UserHeight" @@
    "SPNG_EBIT_DEPTH" :> "BitDepth" @@
    "SPNG_ECOLOR_TYPE" :> "ColorType" @@
    "SPNG_ECOMPRESSION_METHOD" :> "CompressionMethod" @@
    "SPNG_EFILTER_METHOD" :> "FilterMethod" @@
    "SPNG_EINTERLACE_METHOD" :> "InterlaceMethod" @@
    "SPNG_EIHDR_SIZE" :> "IhdrSize" @@
    "SPNG_ENOIHDR" :> "Noihdr" @@
    "SPNG_ECHUNK_POS" :> "ChunkPos" @@
    "SPNG_ECHUNK_SIZE" :> "ChunkSize" @@
    "SPNG_ECHUNK_CRC" :> "ChunkCrc" @@
    "SPNG_ECHUNK_TYPE" :> "ChunkType" @@
    "SPNG_ECHUNK_UNKNOWN_CRITICAL" :> "ChunkUnknownCritical" @@
    "SPNG_EDUP_PLTE" :> "DupPlte" @@
    "SPNG_EDUP_CHRM" :> "DupChrm" @@
    "SPNG_EDUP_GAMA" :> "DupGama" @@
    "SPNG_EDUP_ICCP" :> "DupIccp" @@
    "SPNG_EDUP_SBIT" :> "DupSbit" @@
    "SPNG_EDUP_SRGB" :> "DupSrgb" @@
    "SPNG_EDUP_BKGD" :> "DupBkgd" @@
    "SPNG_EDUP_HIST" :> "DupHist" @@
    "SPNG_EDUP_TRNS" :> "DupTrns" @@
    "SPNG_EDUP_PHYS" :> "DupPhys" @@
    "SPNG_EDUP_TIME" :> "DupTime" @@
    "SPNG_EDUP_OFFS" :> "DupOffs" @@
    "SPNG_EDUP_EXIF" :> "DupExif" @@
    "SPNG_ECHRM" :> "Chrm" @@
    "SPNG_EPLTE_IDX" :> "PlteIdx" @@
    "SPNG_ETRNS_COLOR_TYPE" :> "TrnsColorType" @@
    "SPNG_ETRNS_NO_PLTE" :> "TrnsNoPlte" @@
    "SPNG_EGAMA" :> "Gama" @@
    "SPNG_EICCP_NAME" :> "IccpName" @@
    "SPNG_EICCP_COMPRESSION_METHOD" :> "IccpCompressionMethod" @@
    "SPNG_ESBIT" :> "Sbit" @@
    "SPNG_ESRGB" :> "Srgb" @@
    "SPNG_ETEXT" :> "Text" @@
    "SPNG_ETEXT_KEYWORD" :> "TextKeyword" @@
    "SPNG_EZTXT" :> "Ztxt" @@
    "SPNG_EZTXT_COMPRESSION_METHOD" :> "ZtxtCompressionMethod" @@
    "SPNG_EITXT" :> "Itxt" @@
    "SPNG_EITXT_COMPRESSION_FLAG" :> "ItxtCompressionFlag" @@
    "SPNG_EITXT_COMPRESSION_METHOD" :> "ItxtCompressionMethod" @@
    "SPNG_EITXT_LANG_TAG" :> "ItxtLangTag" @@
    "SPNG_EITXT_TRANSLATED_KEY" :> "ItxtTranslatedKey" @@
    "SPNG_EBKGD_NO_PLTE" :> "BkgdNoPlte" @@
    "SPNG_EBKGD_PLTE_IDX" :> "BkgdPlteIdx" @@
    "SPNG_EHIST_NO_PLTE" :> "HistNoPlte" @@
    "SPNG_EPHYS" :> "Phys" @@
    "SPNG_ESPLT_NAME" :> "SpltName" @@
    "SPNG_ESPLT_DUP_NAME" :> "SpltDupName" @@
    "SPNG_ESPLT_DEPTH" :> "SpltDepth" @@
    "SPNG_ETIME" :> "Time" @@
    "SPNG_EOFFS" :> "Offs" @@
    "SPNG_EEXIF" :> "Exif" @@
    "SPNG_EIDAT_TOO_SHORT" :> "IdatTooShort" @@
    "SPNG_EIDAT_STREAM" :> "IdatStream" @@
    "SPNG_EZLIB" :> "Zlib" @@
    "SPNG_EFILTER" :> "Filter" @@
    "SPNG_EBUFSIZ" :> "Bufsiz" @@
    "SPNG_EIO" :> "Io" @@
    "SPNG_EOF" :> "Eof" @@
    "SPNG_EBUF_SET" :> "BufSet" @@
    "SPNG_EBADSTATE" :> "Badstate" @@
    "SPNG_EFMT" :> "Fmt" @@
    "SPNG_EFLAGS" :> "Flags" @@
    "SPNG_ECHUNKAVAIL" :> "Chunkavail" @@
    "SPNG_ENCODE_ONLY" :> "NcodeOnly" @@
    "SPNG_EOI" :> "Oi" @@
    "SPNG_ENOPLTE" :> "Noplte" @@
    "SPNG_ECHUNK_LIMITS" :> "ChunkLimits" @@
    "SPNG_EZLIB_INIT" :> "ZlibInit" @@
    "SPNG_ECHUNK_STDLEN" :> "ChunkStdlen" @@
    "SPNG_EINTERNAL" :> "Internal" @@
    "SPNG_ECTXTYPE" :> "CtxType" @@
    "SPNG_ENOSRC" :> "NoSrc" @@
    "SPNG_ENODST" :> "NoDst" @@
    "SPNG_EOPSTATE" :> "OpState" @@
    "SPNG_ENOTFINAL" :> "NotFinal"

\* The arm of the match that an i32 selects, "_" for the wildcard arm.
MatchArms ==
    [n \in {spng_errno[c] : c \in DOMAIN ErrTable \cup {"SPNG_OK"}} |->
        CHOOSE c \in DOMAIN ErrTable \cup {"SPNG_OK"} : spng_errno[c] = n]
Arm(e) == IF e \in DOMAIN MatchArms THEN MatchArms[e] ELSE "_"

check_err_badstate_ok(e) ==
    IF Arm(e) \in {"SPNG_OK", "SPNG_EBADSTATE"} THEN "Ok"
    ELSE IF Arm(e) # "_" THEN ErrTable[Arm(e)]
    ELSE "Inval"

check_err_eof_ok(e) ==
    IF Arm(e) \in {"SPNG_OK", "SPNG_IO_EOF"} THEN "Ok"
    ELSE IF Arm(e) # "_" THEN ErrTable[Arm(e)]
    ELSE "Inval"

check_err_unknown_ok(e) ==
    IF Arm(e) \in {"SPNG_OK", "_"} THEN "Ok"
    ELSE ErrTable[Arm(e)]

\* check_err(e: i32): Ok(()) for SPNG_OK, the arm's variant for a known
\* code, Inval for anything else.
check_err(e) ==
    IF Arm(e) = "SPNG_OK" THEN "Ok"
    ELSE IF Arm(e) # "_" THEN ErrTable[Arm(e)]
    ELSE "Inval"

\* The wildcard arm writes "unknown spng error code" to stderr.
check_err_logs(e) == Arm(e) = "_"

\* The protocol / state violations of the taxonomy.
StateErrors == {"Badstate", "OpState", "NoSrc"}

\* ------------------------------------------------------------ formats
Formats == {"Rgba8", "Rgba16", "Rgb8", "Png", "Raw"}
DecodeFlagBits == {"TRANSPARENCY", "PROGRESSIVE"}
DecodeFlagSets == SUBSET DecodeFlagBits

\* ColorType::try_from: the five engine colour-type codes.
ColorType_try_from(value) ==
    CASE value = 0 -> [err |-> "Ok", val |-> "Grayscale"]
      [] value = 2 -> [err |-> "Ok", val |-> "Truecolor"]
      [] value = 3 -> [err |-> "Ok", val |-> "Indexed"]
      [] value = 4 -> [err |-> "Ok", val |-> "GrayscaleAlpha"]
      [] value = 6 -> [err |-> "Ok", val |-> "TruecolorAlpha"]
      [] OTHER -> [err |-> "ColorType", val |-> "none"]

\* ColorType::samples
samples_channels(c) ==
    CASE c = "Grayscale" -> 1
      [] c = "GrayscaleAlpha" -> 2
      [] c \in {"Truecolor", "Indexed"} -> 3
      [] c = "TruecolorAlpha" -> 4

samples(c) ==
    CASE c \in {"Grayscale", "Indexed"} -> 1
      [] c = "GrayscaleAlpha" -> 2
      [] c = "Truecolor" -> 3
      [] c = "TruecolorAlpha" -> 4

\* enum BitDepth: the discriminant of each variant, what `as u8` gives.
BitDepth_as_u8 ==
    ("One" :> 1) @@ ("Two" :> 2) @@ ("Four" :> 4) @@ ("Eight" :> 8)
        @@ ("Sixteen" :> 16)

\* BitDepth::try_from
BitDepth_try_from_upto(value) ==
    CASE value = 1 -> [err |-> "Ok", val |-> "One"]
      [] value = 2 -> [err |-> "Ok", val |-> "Two"]
      [] value \in 3..4 -> [err |-> "Ok", val |-> "Four"]
      [] value \in 5..8 -> [err |-> "Ok", val |-> "Eight"]
      [] value \in 9..16 -> [err |-> "Ok", val |-> "Sixteen"]
      [] OTHER -> [err |-> "BitDepth", val |-> "none"]

BitDepth_try_from(value) ==
    CASE value = 1 -> [err |-> "Ok", val |-> "One"]
      [] value = 2 -> [err |-> "Ok", val |-> "Two"]
      [] value = 4 -> [err |-> "Ok", val |-> "Four"]
      [] value = 8 -> [err |-> "Ok", val |-> "Eight"]
      [] value = 16 -> [err |-> "Ok", val |-> "Sixteen"]
      [] OTHER -> [err |-> "BitDepth", val |-> "none"]

NoInfo ==
    [width |-> 0, height |-> 0, bit_depth |-> "none", color_type |-> "none"]

\* Info::from_header
from_header(header) ==
    LET bd == BitDepth_try_from(header.bit_depth)
        ct == ColorType_try_from(header.color_type)
    IN  IF bd.err # "Ok" THEN [err |-> bd.err, val |-> NoInfo]
        ELSE IF ct.err # "Ok" THEN [err |-> ct.err, val |-> NoInfo]
        ELSE [err |-> "Ok",
              val |-> [width |-> header.width, height |-> header.height,
                       bit_depth |-> bd.val, color_type |-> ct.val]]

\* Info::output_info
output_info_passthrough(info, output_format, output_buffer_size) ==
    [bit_depth |-> info.bit_depth, color_type |-> info.color_type,
     width |-> info.width, height |-> info.height,
     buffer_size |-> output_buffer_size]

output_info(info, output_format, output_buffer_size) ==
    LET bit_depth ==
            CASE output_format \in {"Png", "Raw"} -> info.bit_depth
              [] output_format \in {"Rgb8", "Rgba8"} -> "Eight"
              [] output_format = "Rgba16" -> "Sixteen"
        color_type ==
            CASE output_format \in {"Png", "Raw"} -> info.color_type
              [] output_format = "Rgb8" -> "Truecolor"
              [] output_format = "Rgba8" -> "TruecolorAlpha"
              [] output_format = "Rgba16" -> "TruecolorAlpha"
    IN  [bit_depth |-> bit_depth, color_type |-> color_type,
         width |-> info.width, height |-> info.height,
         buffer_size |-> output_buffer_size]

NoOutputInfo ==
    [bit_depth |-> "none", color_type |-> "none", width |-> 0, height |-> 0,
     buffer_size |-> 0]


\* ------------------------------------------------------------ read_fn
\* What one reader.read(buf) call of the source returns.  An entry of the
\* source's behaviour is ReadErr (the read fails), ReadPanic (the read
\* panics) or the count the source is ready to hand over; io::Read returns at
\* most buf.len() bytes and at most what is left of the input, and 0 at the
\* end of the input.
ReadErr == 0 - 1
ReadPanic == 0 - 2
ReadResults == {ReadErr, ReadPanic} \cup (1..MaxChunk)
Scripts(len) == [1..len -> ReadResults]

Read(entry, buflen, left) ==
    IF entry < 0 THEN entry ELSE Min(entry, Min(buflen, left))

\* buf = &mut dest[offset..]; the n bytes read land at buf[0..n], that is
\* dest[offset..offset+n].  A cell of dest holds the position in the input
\* of the byte written there, 0 while unwritten.
WriteTail(dest, offset, n, from) ==
    [i \in 1..Len(dest) |->
        IF i > offset /\ i <= offset + n THEN from + (i - offset) ELSE dest[i]]

\* match ret { Ok(0) => return IO_EOF, Ok(n) => offset += n,
\*             Err(_) => return IO_ERROR }
read_status_zero_ok(ret) ==
    CASE ret = ReadErr -> "SPNG_IO_ERROR"
      [] ret = 0 -> "SPNG_OK"
      [] OTHER -> "continue"

read_status_zero_is_error(ret) ==
    CASE ret = ReadErr -> "SPNG_IO_ERROR"
      [] ret = 0 -> "SPNG_IO_ERROR"
      [] OTHER -> "continue"

read_status_err_is_eof(ret) ==
    CASE ret = ReadErr -> "SPNG_IO_EOF"
      [] ret = 0 -> "SPNG_IO_EOF"
      [] OTHER -> "continue"

read_status(ret) ==
    CASE ret = ReadErr -> "SPNG_IO_ERROR"
      [] ret = 0 -> "SPNG_IO_EOF"
      [] OTHER -> "continue"

CbRec(status, len, base, offset, dest, seen) ==
    [status |-> status, len |-> len, base |-> base, offset |-> offset,
     dest |-> dest, seen |-> seen]

\* The while loop of read_fn.  script is what the source answers to the
\* successive read calls, avail the length of the input, base the number of
\* input bytes consumed before this callback.  seen lists the results of the
\* read calls made, in order.  A read that panics gives the match nothing to
\* look at: the panic leaves read_fn, which has no catch_unwind, and the
\* callback returns no status ("PANIC").
RECURSIVE read_loop(_, _, _, _, _, _, _)
read_loop(script, len, avail, base, offset, dest, seen) ==
    IF ~(offset < len)
    THEN CbRec("SPNG_OK", len, base, offset, dest, seen)
    ELSE LET pos == base + offset
             left == IF avail > pos THEN avail - pos ELSE 0
             ret == Read(script[Len(seen) + 1], len - offset, left)
             st == read_status(ret)
         IN  IF ret = ReadPanic
             THEN CbRec("PANIC", len, base, offset, dest, Append(seen, ret))
             ELSE IF st # "continue"
             THEN CbRec(st, len, base, offset, dest, Append(seen, ret))
             ELSE read_loop(script, len, avail, base, offset + ret,
                            WriteTail(dest, offset, ret, pos),
                            Append(seen, ret))

\* read_fn(ctx, user, dest, len)
read_fn_do_while(script, len, avail, base) ==
    IF len = 0
    THEN CbRec("SPNG_IO_EOF", len, base, 0, <<>>, <<0>>)
    ELSE read_loop(script, len, avail, base, 0, [i \in 1..len |-> 0], <<>>)

read_fn(script, len, avail, base) ==
    read_loop(script, len, avail, base, 0, [i \in 1..len |-> 0], <<>>)

\* No callback has run yet.
NoCb == CbRec("none", 0, 0, 0, <<>>, <<>>)


\* ------------------------------------------------------------ the engine
\* The native handle as the engine keeps it.  alloc: "none" before
\* spng_ctx_new, "live", "freed" after spng_ctx_free.  state: "INIT" until the
\* header is parsed, "IHDR" once it is, "EOI" after a full decode,
\* "PROGRESSIVE" after a progressive initialisation, "INVALID" after a failed
\* parse or decode.  decoded: spng_decode_image has been invoked on a context
\* whose header was read.  user: the address registered with
\* spng_set_png_stream, 0 for none.
NoIhdr == [width |-> 0, height |-> 0, bit_depth |-> 0, color_type |-> 0]

EngNone ==
    [alloc |-> "none", state |-> "INIT", src |-> "none", user |-> 0,
     max_width |-> U32(0), max_height |-> U32(0), ihdr |-> NoIhdr,
     decoded |-> FALSE, rows |-> 0]

spng_ctx_new ==
    [EngNone EXCEPT !.alloc = "live",
                    !.max_width = SPNG_LIMIT_CEILING,
                    !.max_height = SPNG_LIMIT_CEILING]

spng_ctx_free(e) == [e EXCEPT !.alloc = "freed"]

spng_set_image_limits(e, max_width, max_height) ==
    IF U32Gt(max_width, SPNG_LIMIT_CEILING)
       \/ U32Gt(max_height, SPNG_LIMIT_CEILING)
    THEN [eng |-> e, code |-> "SPNG_EINVAL"]
    ELSE [eng |-> [e EXCEPT !.max_width = max_width,
                            !.max_height = max_height],
          code |-> "SPNG_OK"]

\* The input may be set once per context.
spng_set_png_stream(e, user) ==
    IF e.src # "none"
    THEN [eng |-> e, code |-> "SPNG_EBUF_SET"]
    ELSE [eng |-> [e EXCEPT !.src = "stream", !.user = user],
          code |-> "SPNG_OK"]

spng_set_png_buffer(e) ==
    IF e.src # "none"
    THEN [eng |-> e, code |-> "SPNG_EBUF_SET"]
    ELSE [eng |-> [e EXCEPT !.src = "buffer"], code |-> "SPNG_OK"]

\* The engine pulls input (through the callback or from the buffer) for
\* spng_get_ihdr exactly when the header has not been parsed yet.
ReadsHeader(e) == e.state = "INIT" /\ e.src # "none"

\* status: what pulling HdrLen bytes gave; sig: the signature bytes match;
\* hdr: the IHDR fields found in the input.
spng_get_ihdr(e, status, sig, hdr) ==
    LET fail(code) == [eng |-> [e EXCEPT !.state = "INVALID"], code |-> code]
    IN  CASE e.state = "INVALID" -> [eng |-> e, code |-> "SPNG_EBADSTATE"]
          [] e.state # "INIT" -> [eng |-> e, code |-> "SPNG_OK"]
          [] e.src = "none" -> [eng |-> e, code |-> "SPNG_ENOSRC"]
          [] status # "SPNG_OK" -> fail(status)
          [] ~sig -> fail("SPNG_ESIGNATURE")
          [] hdr.bit_depth \notin {1, 2, 4, 8, 16} -> fail("SPNG_EBIT_DEPTH")
          [] hdr.color_type \notin {0, 2, 3, 4, 6} -> fail("SPNG_ECOLOR_TYPE")
          [] U32Gt(U32(hdr.width), e.max_width) -> fail("SPNG_EUSER_WIDTH")
          [] U32Gt(U32(hdr.height), e.max_height) -> fail("SPNG_EUSER_HEIGHT")
          [] OTHER -> [eng |-> [e EXCEPT !.state = "IHDR", !.ihdr = hdr],
                       code |-> "SPNG_OK"]

\* Bytes of one decoded row, then of the image, for an output format.
EngSamples(color_type) ==
    CASE color_type \in {0, 3} -> 1
      [] color_type = 4 -> 2
      [] color_type = 2 -> 3
      [] OTHER -> 4

RowBits(ihdr, fmt) ==
    CASE fmt = "Rgba8" -> ihdr.width * 32
      [] fmt = "Rgba16" -> ihdr.width * 64
      [] fmt = "Rgb8" -> ihdr.width * 24
      [] OTHER -> ihdr.width * EngSamples(ihdr.color_type) * ihdr.bit_depth

ImageSize(ihdr, fmt) == ((RowBits(ihdr, fmt) + 7) \div 8) * ihdr.height

\* The size does not fit the engine's size_t.
Overflows(ihdr, fmt) == ImageSize(ihdr, fmt) > SizeMax

spng_decoded_image_size(e, fmt) ==
    IF e.state \notin {"IHDR", "EOI", "PROGRESSIVE"}
    THEN [code |-> "SPNG_EBADSTATE", len |-> 0]
    ELSE IF Overflows(e.ihdr, fmt)
    THEN [code |-> "SPNG_EOVERFLOW", len |-> 0]
    ELSE [code |-> "SPNG_OK", len |-> ImageSize(e.ihdr, fmt)]

\* spng_decode_image pulls the image data exactly when the call is the first
\* decode of a context whose header is read, is not a progressive
\* initialisation and was given a large enough buffer.
ReadsBody(e, len, fmt, flags) ==
    /\ e.state = "IHDR" /\ ~e.decoded /\ e.src # "none"
    /\ ~Overflows(e.ihdr, fmt)
    /\ "PROGRESSIVE" \notin flags
    /\ len >= ImageSize(e.ihdr, fmt)

\* len: the buffer length the caller passes; status: what pulling BodyLen
\* bytes gave.  written: bytes stored through the out pointer.  Every
\* invocation counts as the context's one decode.
spng_decode_image(e, len, fmt, flags, status) ==
    LET r(e2, code, written) == [eng |-> e2, code |-> code, written |-> written]
        once == [e EXCEPT !.decoded = TRUE]
    IN  CASE e.state = "INVALID" -> r(once, "SPNG_EBADSTATE", 0)
          [] e.decoded -> r(once, "SPNG_EBADSTATE", 0)
          [] e.src = "none" -> r(once, "SPNG_ENOSRC", 0)
          [] e.state = "INIT" -> r(once, "SPNG_EBADSTATE", 0)
          [] Overflows(e.ihdr, fmt) -> r(once, "SPNG_EOVERFLOW", 0)
          [] "PROGRESSIVE" \in flags ->
                r([once EXCEPT !.state = "PROGRESSIVE"], "SPNG_OK", 0)
          [] len < ImageSize(e.ihdr, fmt) -> r(once, "SPNG_EBUFSIZ", 0)
          [] status # "SPNG_OK" ->
                r([once EXCEPT !.state = "INVALID"], status, 0)
          [] OTHER ->
                r([once EXCEPT !.state = "EOI"], "SPNG_OK",
                  ImageSize(e.ihdr, fmt))

\* Progressive decoding.  rows counts the scanlines delivered.  A scanline
\* call needs a context that spng_decode_image initialised with the
\* PROGRESSIVE flag; it pulls the scanline's input and stores one row of
\* RowSize bytes; the call that delivers the last scanline returns SPNG_EOI,
\* and so does every call after the end of the image.
RowSize(ihdr, fmt) == (RowBits(ihdr, fmt) + 7) \div 8

ReadsRow(e, len, fmt) ==
    /\ e.state = "PROGRESSIVE" /\ e.src # "none"
    /\ len >= RowSize(e.ihdr, fmt)

spng_decode_scanline(e, len, fmt, status) ==
    LET r(e2, code, written) == [eng |-> e2, code |-> code, written |-> written]
    IN  CASE e.state = "EOI" -> r(e, "SPNG_EOI", 0)
          [] e.state # "PROGRESSIVE" -> r(e, "SPNG_EBADSTATE", 0)
          [] len < RowSize(e.ihdr, fmt) -> r(e, "SPNG_EBUFSIZ", 0)
          [] status # "SPNG_OK" -> r([e EXCEPT !.state = "INVALID"], status, 0)
          [] e.rows + 1 >= e.ihdr.height ->
                r([e EXCEPT !.state = "EOI", !.rows = e.rows + 1],
                  "SPNG_EOI", RowSize(e.ihdr, fmt))
          [] OTHER ->
                r([e EXCEPT !.rows = e.rows + 1], "SPNG_OK",
                  RowSize(e.ihdr, fmt))

\* For an image that is not interlaced (the only kind the headers of this
\* model describe) spng_decode_row is spng_decode_scanline.
spng_decode_row(e, len, fmt, status) ==
    spng_decode_scanline(e, len, fmt, status)

\* ------------------------------------------------------------ RawContext
\* The Rust value RawContext { raw, reader }.  live: the value exists (it has
\* been constructed and not yet dropped).  reader: the address of the Box it
\* owns, 0 for None.
NoCtx == [live |-> FALSE, raw |-> "null", reader |-> 0]

\* RawContext::new / with_flags; null: spng_ctx_new returned a null pointer.
RawContext_new_unchecked(null) ==
    [err |-> "Ok",
     ctx |-> [live |-> TRUE, raw |-> IF null THEN "null" ELSE "ptr",
              reader |-> 0],
     eng |-> IF null THEN EngNone ELSE spng_ctx_new]

RawContext_new(null) ==
    IF null
    THEN [err |-> "Mem", ctx |-> NoCtx, eng |-> EngNone]
    ELSE [err |-> "Ok",
          ctx |-> [live |-> TRUE, raw |-> "ptr", reader |-> 0],
          eng |-> spng_ctx_new]

\* impl Drop for RawContext: fn drop
Drop_drop_leak(c, e, f) == [eng |-> e, frees |-> f]

Drop_drop(c, e, f) ==
    IF c.raw # "null"
    THEN [eng |-> spng_ctx_free(e), frees |-> f + 1]
    ELSE [eng |-> e, frees |-> f]

\* Dropping a RawContext value, first half: the value is out of its owner's
\* reach (live is FALSE from here on) and Drop::drop runs on it, its fields
\* all still in place.
drop_glue_fields_first(c, e, h, f) ==
    [ctx |-> [c EXCEPT !.live = FALSE], eng |-> e, heap |-> h \ {c.reader},
     frees |-> f]

drop_glue_drop(c, e, h, f) ==
    LET d == Drop_drop(c, e, f)
    IN  [ctx |-> [c EXCEPT !.live = FALSE], eng |-> d.eng, heap |-> h,
         frees |-> d.frees]

\* Second half: the fields are dropped in declaration order, raw (a plain
\* pointer, nothing to do) and then reader, which frees the Box the context
\* owns; the value is gone.
drop_glue_fields(c, e, h, f) ==
    [ctx |-> c, eng |-> e, heap |-> h \ {c.reader}, frees |-> f]

\* Dropping a RawContext value: Drop::drop runs, then the fields are dropped.
drop_ctx(c, e, h, f) ==
    IF ~c.live
    THEN [ctx |-> c, eng |-> e, heap |-> h, frees |-> f]
    ELSE LET d == drop_glue_drop(c, e, h, f)
         IN  drop_glue_fields(d.ctx, d.eng, d.heap, d.frees)

\* RawContext::set_image_limits
set_image_limits_unchecked(e, max_width, max_height) ==
    LET r == spng_set_image_limits(e, max_width, max_height)
    IN  [eng |-> r.eng, err |-> "Ok"]

set_image_limits_swapped(e, max_width, max_height) ==
    LET r == spng_set_image_limits(e, max_height, max_width)
    IN  [eng |-> r.eng, err |-> check_err(spng_errno[r.code])]

set_image_limits(e, max_width, max_height) ==
    LET r == spng_set_image_limits(e, max_width, max_height)
    IN  [eng |-> r.eng, err |-> check_err(spng_errno[r.code])]

\* RawContext::set_png_stream; addr: where Box::new puts the reader.  The
\* assignment to self.reader drops the Box held before.
set_png_stream(c, e, h, addr) ==
    LET user == addr
        r == spng_set_png_stream(e, user)
    IN  [ctx |-> [c EXCEPT !.reader = addr],
         heap |-> (h \cup {addr}) \ {c.reader},
         eng |-> r.eng,
         err |-> check_err(spng_errno[r.code])]

\* RawContext::set_png_buffer
set_png_buffer(e) ==
    LET r == spng_set_png_buffer(e)
    IN  [eng |-> r.eng, err |-> check_err(spng_errno[r.code])]

\* RawContext::get_ihdr
get_ihdr_unchecked(e, status, sig, hdr) ==
    LET r == spng_get_ihdr(e, status, sig, hdr)
    IN  [eng |-> r.eng, err |-> "Ok", val |-> r.eng.ihdr]

get_ihdr(e, status, sig, hdr) ==
    LET r == spng_get_ihdr(e, status, sig, hdr)
        err == check_err(spng_errno[r.code])
    IN  [eng |-> r.eng, err |-> err,
         val |-> IF err = "Ok" THEN r.eng.ihdr ELSE NoIhdr]

\* RawContext::decoded_image_size
decoded_image_size_png(e, out_format) ==
    LET r == spng_decoded_image_size(e, "Png")
        err == check_err(spng_errno[r.code])
    IN  [err |-> err, val |-> IF err = "Ok" THEN r.len ELSE 0]

decoded_image_size_unchecked(e, out_format) ==
    LET r == spng_decoded_image_size(e, out_format)
    IN  [err |-> "Ok", val |-> r.len]

decoded_image_size(e, out_format) ==
    LET r == spng_decoded_image_size(e, out_format)
        err == check_err(spng_errno[r.code])
    IN  [err |-> err, val |-> IF err = "Ok" THEN r.len ELSE 0]

\* RawContext::decode_image; output_len is output.len().
decode_image_fixed_len(e, output_len, out_format, flags, status) ==
    LET need == ImageSize(e.ihdr, out_format)
        r == spng_decode_image(e, need, out_format, flags, status)
    IN  [eng |-> r.eng, err |-> check_err(spng_errno[r.code]),
         passed |-> need, written |-> r.written]

decode_image(e, output_len, out_format, flags, status) ==
    LET r == spng_decode_image(e, output_len, out_format, flags, status)
    IN  [eng |-> r.eng, err |-> check_err(spng_errno[r.code]),
         passed |-> output_len, written |-> r.written]

\* RawContext::decode_row; fmt is the format the engine was initialised
\* with, which it keeps.
decode_row_unchecked(e, output_len, fmt, status) ==
    LET r == spng_decode_row(e, output_len, fmt, status)
    IN  [eng |-> r.eng, err |-> "Ok", written |-> r.written]

decode_row(e, output_len, fmt, status) ==
    LET r == spng_decode_row(e, output_len, fmt, status)
    IN  [eng |-> r.eng, err |-> check_err(spng_errno[r.code]),
         written |-> r.written]

\* RawContext::decode_scanline
decode_scanline(e, output_len, fmt, status) ==
    LET r == spng_decode_scanline(e, output_len, fmt, status)
    IN  [eng |-> r.eng, err |-> check_err(spng_errno[r.code]),
         written |-> r.written]

\* ------------------------------------------------------------ Reader
NoReader ==
    [live |-> FALSE, out_format |-> "Png", info |-> NoInfo,
     decode_flags |-> {}, output_buffer_size |-> 0]

\* Reader::output_buffer_size
output_buffer_size_plus_one(r) == r.output_buffer_size + 1

output_buffer_size(r) == r.output_buffer_size

\* Reader::next_frame(&mut self, output); reader: self as the call leaves
\* it.
FrameRec(d, r) ==
    [eng |-> d.eng, err |-> d.err, passed |-> d.passed,
     written |-> d.written, reader |-> r]

next_frame_ignore(r, e, output_len, status) ==
    [FrameRec(decode_image(e, output_len, r.out_format, r.decode_flags,
                           status), r)
        EXCEPT !.err = "Ok"]

next_frame_png(r, e, output_len, status) ==
    FrameRec(decode_image(e, output_len, "Png", r.decode_flags, status), r)

next_frame_forgets(r, e, output_len, status) ==
    FrameRec(decode_image(e, output_len, r.out_format, r.decode_flags,
                          status),
             [r EXCEPT !.info = NoInfo, !.output_buffer_size = 0])

next_frame(r, e, output_len, status) ==
    FrameRec(decode_image(e, output_len, r.out_format, r.decode_flags,
                          status), r)


\* ------------------------------------------------------------ state
VARIABLES
    api,        \* how the program uses the crate: "read_info",
                \* "read_info_from_slice" (Decoder / Reader) or "raw"
                \* (RawContext called directly)
    dec,        \* the Decoder's fields: limits, output_format, decode_flags
    png,        \* the input: sig (the signature bytes are right), avail
                \* (its length; shorter than HdrLen + BodyLen is truncated),
                \* hdr (its IHDR fields, NoIhdr until the engine has
                \* parsed them, unless they are fixed from the start)
    ctx,        \* the RawContext value
    eng,        \* the native handle
    frees,      \* calls of spng_ctx_free
    heap,       \* addresses of the live Boxes
    nalloc,     \* Boxes allocated so far
    src,        \* the registered source: pos (bytes handed over), eof (a
                \* read returned 0), err (a read failed)
    cb,         \* the last invocation of read_fn
    loc,        \* header and output_buffer_size as returned to the caller
    rd,         \* the Reader
    out_info,   \* the OutputInfo read_info returned
    ret,        \* the last call and its result
    out,        \* the last decode call: len (of the slice), passed (length
                \* given to the engine), written (bytes the engine stored),
                \* flags, and the handle as the call found it: state,
                \* again (a decode had been invoked), need (the decoded
                \* size for the call's format, 0 when there is none)
    pc,         \* position of the program
    ops,        \* RawContext calls made in "raw" use
    frames,     \* next_frame / decode_image calls made
    ub,         \* the callback dereferenced a dangling user pointer
    chk         \* one use of the error module: e (an i32 status), res (what
                \* check_err(e) returned), logged (it wrote the diagnostic),
                \* shown (the code Display handed to spng_strerror)
VARIABLE
    row         \* the decode_row / decode_scanline calls: calls (how many
                \* were made), state (the engine's state before the last
                \* one), len (the buffer it was given), written (bytes it
                \* stored)
VARIABLE
    shot        \* the one-shot decode(input, format) applied to the session's
                \* input: err, info (the OutputInfo), len (bytes.len()),
                \* written (how many of the bytes the decode stored)
VARIABLE
    other       \* a second, independently constructed context in the same
                \* process, used directly: pc ("start", "live", "dropped",
                \* "aborted"), ctx and eng (its RawContext and handle), frees,
                \* pos (how far its own source was read), binds and reads
                \* (set_png_stream and get_ihdr calls made), ret, ub
VARIABLE
    conv        \* one use of the byte conversions: value (a u8), ct (what
                \* ColorType::try_from returned), n (samples() of it), bd
                \* (what BitDepth::try_from returned), u8 (the variant cast
                \* back with `as u8`)

vars == <<api, dec, png, ctx, eng, frees, heap, nalloc, src, cb, loc, rd,
          out_info, ret, out, pc, ops, frames, ub, chk, conv, row, shot,
          other>>

LimitValues == {U32(1), PNG_U32_MAX, U32Succ(SPNG_LIMIT_CEILING)}
LimitPairs ==
    {l \in [max_width : LimitValues, max_height : LimitValues] :
        l.max_width = PNG_U32_MAX \/ l.max_height = PNG_U32_MAX}

\* Limits::default
Limits_default == [max_width |-> PNG_U32_MAX, max_height |-> PNG_U32_MAX]

ColorBytes == {0, 6, 5}
DepthBytes == {8, 16}
Headers ==
    [width : 1..MaxDim, height : 1..MaxDim,
     bit_depth : DepthBytes, color_type : ColorBytes]

FullLen == HdrLen + BodyLen
CbStatuses == {"SPNG_OK", "SPNG_IO_EOF", "SPNG_IO_ERROR"}
NoOut ==
    [len |-> 0, passed |-> 0, written |-> 0, flags |-> {}, state |-> "INIT",
     again |-> FALSE, need |-> 0]
\* first: what the first successful decoded_image_size call returned; calls:
\* how many have been made.
NoLoc == [header |-> NoIhdr, output_buffer_size |-> 0, first |-> 0,
          calls |-> 0]
BufLens(size) == {n \in {0, size - 1, size, size + 1} : n >= 0}

\* What a Decoder can be configured to (with_limits, with_output_format,
\* with_decode_flags and the setters), and the arguments the direct user of
\* RawContext passes.
DecoderConfigs ==
    [limits : LimitPairs, output_format : Formats,
     decode_flags : DecodeFlagSets]
RawArgs ==
    [limits : {Limits_default,
               [max_width |-> U32Succ(SPNG_LIMIT_CEILING),
                max_height |-> PNG_U32_MAX]},
     output_format : {"Png", "Rgba8"},
     decode_flags : {{}, {"PROGRESSIVE"}}]

NoOther ==
    [pc |-> "start", ctx |-> NoCtx, eng |-> EngNone, frees |-> 0, pos |-> 0,
     binds |-> 0, reads |-> 0, ret |-> "none", ub |-> FALSE]
NoShot == [err |-> "none", info |-> NoOutputInfo, len |-> 0, written |-> 0]
NoRow == [calls |-> 0, state |-> "none", len |-> 0, written |-> 0]
NoVal == [err |-> "none", val |-> "none"]
NoConv == [value |-> 0, ct |-> NoVal, n |-> 0, bd |-> NoVal, u8 |-> 0]
NoCode == 0 - 1000
NoChk == [e |-> NoCode, res |-> "none", logged |-> FALSE, shown |-> NoCode]

Init ==
    /\ api \in {"read_info", "read_info_from_slice", "raw"}
    /\ dec \in IF api = "raw" THEN RawArgs ELSE DecoderConfigs
    /\ png \in [sig : BOOLEAN, avail : 0..FullLen, hdr : {NoIhdr}]
    /\ ctx = NoCtx
    /\ eng = EngNone
    /\ frees = 0
    /\ heap = {}
    /\ nalloc = 0
    /\ src = [pos |-> 0, eof |-> FALSE, err |-> FALSE]
    /\ cb = NoCb
    /\ loc = NoLoc
    /\ rd = NoReader
    /\ out_info = NoOutputInfo
    /\ ret = [op |-> "none", err |-> "Ok"]
    /\ out = NoOut
    /\ pc = IF api = "raw" THEN "raw" ELSE "new"
    /\ ops = 0
    /\ frames = 0
    /\ ub = FALSE
    /\ chk = NoChk
    /\ conv = NoConv
    /\ row = NoRow
    /\ shot = NoShot
    /\ other = NoOther

\* ------------------------------------------------------------ one-shot
\* What the engine gets when it takes len bytes at pos from a slice of
\* avail bytes.
slice_status(avail, pos, len) ==
    IF avail >= pos + len THEN "SPNG_OK" ELSE "SPNG_IO_EOF"

\* decode(input, out_format) -> Result<(OutputInfo, Vec<u8>), Error>: the
\* one-shot function, over a byte slice as its test calls it.  It creates a
\* context with the default limits, binds the input, reads the header,
\* asks for the size of the decoded image in out_format, allocates that
\* many bytes and decodes once into them.
decode(input, out_format) ==
    LET fail(err) ==
            [err |-> err, info |-> NoOutputInfo, len |-> 0, written |-> 0]
        n == RawContext_new(FALSE)
        l == set_image_limits(n.eng, Limits_default.max_width,
                              Limits_default.max_height)
        b == set_png_buffer(l.eng)
        h == get_ihdr(b.eng, slice_status(input.avail, 0, HdrLen),
                      input.sig, input.hdr)
        s == decoded_image_size(h.eng, out_format)
        i == from_header(h.val)
        d == decode_image(h.eng, s.val, out_format, {},
                          slice_status(input.avail, HdrLen, BodyLen))
    IN  CASE n.err # "Ok" -> fail(n.err)
          [] l.err # "Ok" -> fail(l.err)
          [] b.err # "Ok" -> fail(b.err)
          [] h.err # "Ok" -> fail(h.err)
          [] s.err # "Ok" -> fail(s.err)
          [] i.err # "Ok" -> fail(i.err)
          [] d.err # "Ok" -> fail(d.err)
          [] OTHER ->
                [err |-> "Ok", info |-> output_info(i.val, out_format, s.val),
                 len |-> s.val, written |-> d.written]

\* ------------------------------------------------------------ plumbing
\* The source's answers matter when read_fn runs on a live reader, the
\* arbitrary status when it runs on a dangling one.
Dangling(e) == e.src = "stream" /\ e.user \notin heap
PullScripts(reads, e, len) ==
    IF reads /\ e.src = "stream" /\ ~Dangling(e) THEN Scripts(len)
    ELSE {[i \in 1..len |-> 1]}
PullStatuses(reads, e) ==
    IF reads /\ Dangling(e) THEN CbStatuses ELSE {"SPNG_OK"}

\* The engine pulls len bytes of input: through read_fn for a stream, from
\* the slice for a buffer.  A user pointer that is not the address of a live
\* Box makes read_fn's dereference undefined: any status may come back.
Pull(e, len, script, anystatus) ==
    LET dangling == Dangling(e)
        c == read_fn(script, len, png.avail, src.pos)
        left == IF png.avail > src.pos THEN png.avail - src.pos ELSE 0
    IN  CASE dangling ->
                [status |-> anystatus, cb |-> cb, src |-> src, ub |-> TRUE]
          [] e.src = "stream" ->
                [status |-> c.status, cb |-> c,
                 src |-> [pos |-> src.pos + c.offset,
                          eof |-> src.eof
                                  \/ \E k \in 1..Len(c.seen) : c.seen[k] = 0,
                          err |-> src.err
                                  \/ c.status \in {"SPNG_IO_ERROR", "PANIC"}],
                 ub |-> ub]
          [] OTHER ->
                [status |-> IF left >= len THEN "SPNG_OK" ELSE "SPNG_IO_EOF",
                 cb |-> cb,
                 src |-> [src EXCEPT !.pos = src.pos + Min(len, left),
                                     !.eof = src.eof \/ left < len],
                 ub |-> ub]

NoPull == [status |-> "SPNG_OK", cb |-> cb, src |-> src, ub |-> ub]

\* A step of Decoder::read_info is taken at its place in the function; a
\* direct user of RawContext calls the methods in any order.
CanCall(op) ==
    \/ api = "raw" /\ pc = "raw" /\ ops < MaxOps /\ ctx.live
    \/ api # "raw" /\ pc = op

NextStep_bind_first(op) ==
    CASE op = "new" -> "bind"
      [] op \in {"set_png_stream", "set_png_buffer"} -> "limits"
      [] op = "limits" -> "ihdr"
      [] op = "ihdr" -> "size"
      [] op = "size" -> "info"
      [] OTHER -> "reader"

NextStep(op) ==
    CASE op = "new" -> "limits"
      [] op = "limits" -> "bind"
      [] op \in {"set_png_stream", "set_png_buffer"} -> "ihdr"
      [] op = "ihdr" -> "size"
      [] op = "size" -> "info"
      [] OTHER -> "reader"

\* The call returns err.  In read_info a failing step returns through `?`,
\* which drops the local RawContext.
Return(op, err, c, e, h) ==
    LET fails == api # "raw" /\ err # "Ok"
        d == IF fails THEN drop_ctx(c, e, h, frees)
             ELSE [ctx |-> c, eng |-> e, heap |-> h, frees |-> frees]
    IN  /\ ctx' = d.ctx
        /\ eng' = d.eng
        /\ heap' = d.heap
        /\ frees' = d.frees
        /\ ret' = [op |-> op, err |-> err]
        /\ pc' = IF api = "raw" THEN "raw"
                 ELSE IF fails THEN "failed" ELSE NextStep(op)
        /\ ops' = IF api = "raw" /\ op # "size" THEN ops + 1 ELSE ops

\* A panic in reader.read leaves read_fn, an extern "C" function, while the
\* engine's frame is below it on the stack.  Nothing catches it: the build
\* either aborts the process at the boundary or lets the unwinding run
\* through the engine's frames into the caller, whose RawContext (and
\* Reader) is dropped on the way.  op: the call in progress; o, f: the decode
\* call as recorded and the number of decode calls made.
PanicOutcomes == {"abort", "unwind"}
Panicked(op, p, how, o, f) ==
    LET d == IF how = "unwind" THEN drop_ctx(ctx, eng, heap, frees)
             ELSE [ctx |-> ctx, eng |-> eng, heap |-> heap, frees |-> frees]
    IN  /\ ctx' = d.ctx
        /\ eng' = d.eng
        /\ heap' = d.heap
        /\ frees' = d.frees
        /\ rd' = IF how = "unwind" THEN [rd EXCEPT !.live = FALSE] ELSE rd
        /\ ret' = [op |-> op, err |-> "Panic"]
        /\ pc' = IF how = "abort" THEN "aborted" ELSE "unwound"
        /\ cb' = p.cb
        /\ src' = p.src
        /\ ub' = (ub \/ how = "unwind")
        /\ out' = o
        /\ frames' = f
        /\ ops' = IF api = "raw" THEN ops + 1 ELSE ops
        /\ UNCHANGED <<chk, conv, row, shot, other, api, dec, png, nalloc, loc, out_info>>


\* ------------------------------------------------------------ actions
\* RawContext::new(flags): first step of read_info, or called directly.
New ==
    /\ \/ api = "raw" /\ pc = "raw" /\ ops < MaxOps /\ ~ctx.live
          /\ eng.alloc = "none"
       \/ api # "raw" /\ pc = "new"
    /\ \E null \in BOOLEAN :
          LET r == RawContext_new(null)
          IN  Return("new", r.err, r.ctx, r.eng, heap)
    /\ UNCHANGED <<chk, conv, row, shot, other, api, dec, png, nalloc, src, cb, loc, rd, out_info, out,
                   frames, ub>>

\* ctx.set_image_limits(self.limits.max_width, self.limits.max_height)
SetImageLimits ==
    /\ CanCall("limits")
    /\ LET r == set_image_limits(eng, dec.limits.max_width,
                                 dec.limits.max_height)
       IN  Return("limits", r.err, ctx, r.eng, heap)
    /\ UNCHANGED <<chk, conv, row, shot, other, api, dec, png, nalloc, src, cb, loc, rd, out_info, out,
                   frames, ub>>

\* ctx.set_png_stream(self.reader)
SetPngStream ==
    /\ \/ api = "raw" /\ CanCall("bind")
       \/ api = "read_info" /\ pc = "bind"
    /\ LET r == set_png_stream(ctx, eng, heap, nalloc + 1)
       IN  Return("set_png_stream", r.err, r.ctx, r.eng, r.heap)
    /\ nalloc' = nalloc + 1
    /\ UNCHANGED <<chk, conv, row, shot, other, api, dec, png, src, cb, loc, rd, out_info, out, frames, ub>>

\* ctx.set_png_buffer(self.reader)
SetPngBuffer ==
    /\ \/ api = "raw" /\ CanCall("bind")
       \/ api = "read_info_from_slice" /\ pc = "bind"
    /\ LET r == set_png_buffer(eng)
       IN  Return("set_png_buffer", r.err, ctx, r.eng, heap)
    /\ UNCHANGED <<chk, conv, row, shot, other, api, dec, png, nalloc, src, cb, loc, rd, out_info, out,
                   frames, ub>>

\* ctx.get_ihdr()
GetIhdr ==
    /\ CanCall("ihdr")
    /\ \E script \in PullScripts(ReadsHeader(eng), eng, HdrLen),
          hdr \in IF ~ReadsHeader(eng) THEN {NoIhdr}
                  ELSE IF png.hdr # NoIhdr THEN {png.hdr}
                  ELSE Headers,
          any \in PullStatuses(ReadsHeader(eng), eng) :
          LET p == IF ReadsHeader(eng) THEN Pull(eng, HdrLen, script, any)
                   ELSE NoPull
              r == get_ihdr(eng, p.status, png.sig, hdr)
          IN  IF p.status = "PANIC"
              THEN \E how \in PanicOutcomes :
                      Panicked("ihdr", p, how, out, frames)
              ELSE /\ Return("ihdr", r.err, ctx, r.eng, heap)
                   /\ cb' = p.cb
                   /\ src' = p.src
                   /\ ub' = p.ub
                   /\ loc' = [loc EXCEPT !.header = r.val]
                   /\ png' = IF ReadsHeader(eng) /\ p.status = "SPNG_OK"
                                 /\ png.sig
                              THEN [png EXCEPT !.hdr = hdr] ELSE png
                   /\ UNCHANGED <<chk, conv, row, shot, other, api, dec, nalloc, rd, out_info, out,
                                  frames>>

\* ctx.decoded_image_size(self.output_format)
DecodedImageSize ==
    /\ CanCall("size")
    /\ loc.calls < MaxSizeCalls
    /\ api = "raw" => eng.state \in {"IHDR", "EOI", "PROGRESSIVE"}
    /\ LET r == decoded_image_size(eng, dec.output_format)
       IN  /\ Return("size", r.err, ctx, eng, heap)
           /\ loc' = [loc EXCEPT !.output_buffer_size = r.val,
                                 !.first = IF loc.calls = 0 /\ r.err = "Ok"
                                           THEN r.val ELSE loc.first,
                                 !.calls = loc.calls + 1]
    /\ UNCHANGED <<chk, conv, row, shot, other, api, dec, png, nalloc, src, cb, rd, out_info, out,
                   frames, ub>>

\* The rest of read_info: Info::from_header, Info::output_info, the Reader.
ReadInfoFinish ==
    /\ api # "raw" /\ pc = "info"
    /\ LET i == from_header(loc.header)
           o == output_info(i.val, dec.output_format, loc.output_buffer_size)
       IN  /\ Return("info", i.err, ctx, eng, heap)
           /\ IF i.err = "Ok"
              THEN /\ rd' = [live |-> TRUE, out_format |-> dec.output_format,
                             info |-> i.val,
                             decode_flags |-> dec.decode_flags,
                             output_buffer_size |-> loc.output_buffer_size]
                   /\ out_info' = o
              ELSE UNCHANGED <<rd, out_info>>
    /\ UNCHANGED <<chk, conv, row, shot, other, api, dec, png, nalloc, src, cb, loc, out, frames, ub>>

\* The effect of one decode call on the buffer and the source.  A call in
\* which the source panics stores nothing the caller gets to see.
Decode(op, r, p, len, fmt, flags) ==
    LET o(passed, written) ==
            [len |-> len, passed |-> passed, written |-> written,
             flags |-> flags, state |-> eng.state, again |-> eng.decoded,
             need |-> decoded_image_size(eng, fmt).val]
    IN  IF p.status = "PANIC"
        THEN \E how \in PanicOutcomes :
                Panicked(op, p, how, o(len, 0), frames + 1)
        ELSE /\ eng' = r.eng
             /\ ret' = [op |-> op, err |-> r.err]
             /\ out' = o(r.passed, r.written)
             /\ cb' = p.cb
             /\ src' = p.src
             /\ ub' = p.ub
             /\ rd' = IF op = "next_frame" THEN r.reader ELSE rd
             /\ frames' = frames + 1
             /\ ops' = IF api = "raw" THEN ops + 1 ELSE ops
             /\ UNCHANGED <<chk, conv, row, shot, other, api, dec, png, ctx, frees, heap, nalloc, loc,
                            out_info, pc>>

\* reader.next_frame(&mut output)
NextFrame ==
    /\ api # "raw" /\ pc = "reader" /\ rd.live /\ frames < MaxFrames
    /\ \E len \in BufLens(output_buffer_size(rd)) :
        LET reads == ReadsBody(eng, len, rd.out_format, rd.decode_flags)
        IN  \E script \in PullScripts(reads, eng, BodyLen),
               any \in PullStatuses(reads, eng) :
              LET p == IF reads THEN Pull(eng, BodyLen, script, any)
                       ELSE NoPull
              IN  Decode("next_frame",
                         next_frame(rd, eng, len, p.status), p, len,
                         rd.out_format, rd.decode_flags)

\* ctx.decode_image(&mut output, out_format, flags), called directly.
DecodeImage ==
    /\ api = "raw" /\ CanCall("decode")
    /\ \E len \in BufLens(ImageSize(eng.ihdr, dec.output_format)) :
        LET reads == ReadsBody(eng, len, dec.output_format, dec.decode_flags)
        IN  \E script \in PullScripts(reads, eng, BodyLen),
               any \in PullStatuses(reads, eng) :
              LET p == IF reads THEN Pull(eng, BodyLen, script, any)
                       ELSE NoPull
              IN  Decode("decode_image",
                         decode_image(eng, len, dec.output_format,
                                      dec.decode_flags, p.status), p, len,
                         dec.output_format, dec.decode_flags)

\* The Reader (with the RawContext in it) or the RawContext goes out of scope.
\* The owner (the Reader, or the direct user) lets the RawContext go out of
\* scope: Drop::drop runs.
DropOwner ==
    /\ \/ api # "raw" /\ pc = "reader"
       \/ api = "raw" /\ pc = "raw" /\ ctx.live
    /\ LET d == drop_glue_drop(ctx, eng, heap, frees)
       IN  /\ ctx' = d.ctx
           /\ eng' = d.eng
           /\ heap' = d.heap
           /\ frees' = d.frees
    /\ rd' = [rd EXCEPT !.live = FALSE]
    /\ pc' = "dropping"
    /\ UNCHANGED <<chk, conv, row, shot, other, api, dec, png, nalloc, src, cb, loc, out_info, ret, out,
                   ops, frames, ub>>

\* ... and after Drop::drop has returned the fields of the value are dropped.
DropFields ==
    /\ pc = "dropping"
    /\ LET d == drop_glue_fields(ctx, eng, heap, frees)
       IN  /\ ctx' = d.ctx
           /\ eng' = d.eng
           /\ heap' = d.heap
           /\ frees' = d.frees
    /\ pc' = "done"
    /\ UNCHANGED <<chk, conv, row, shot, other, api, dec, png, nalloc, src, cb, loc, rd, out_info,
                   ret, out, ops, frames, ub>>

Next ==
    \/ New
    \/ SetImageLimits
    \/ SetPngStream
    \/ SetPngBuffer
    \/ GetIhdr
    \/ DecodedImageSize
    \/ ReadInfoFinish
    \/ NextFrame
    \/ DecodeImage
    \/ DropOwner
    \/ DropFields

Spec == Init /\ [][Next]_vars

\* ------------------------------------------------------------ format model
\* Info::from_header and Info::output_info on their own, as the last step of
\* read_info applies them: to any header record, of a bit depth and colour
\* type the wrapper knows or not, for every output format.
HeaderBytes ==
    [width : 1..MaxDim, height : 1..MaxDim,
     bit_depth : {1, 2, 3, 4, 8, 16}, color_type : {0, 2, 3, 4, 5, 6}]

FmtInit ==
    /\ api = "read_info_from_slice"
    /\ dec \in [limits : {Limits_default}, output_format : Formats,
                 decode_flags : {{}}]
    /\ loc \in [header : HeaderBytes, output_buffer_size : 0..MaxDim,
                 first : {0}, calls : {1}]
    /\ pc = "info"
    /\ png = [sig |-> TRUE, avail |-> FullLen, hdr |-> NoIhdr]
    /\ ctx = NoCtx
    /\ eng = EngNone
    /\ frees = 0
    /\ heap = {}
    /\ nalloc = 0
    /\ src = [pos |-> 0, eof |-> FALSE, err |-> FALSE]
    /\ cb = NoCb
    /\ rd = NoReader
    /\ out_info = NoOutputInfo
    /\ ret = [op |-> "size", err |-> "Ok"]
    /\ out = NoOut
    /\ ops = 0
    /\ frames = 0
    /\ ub = FALSE
    /\ chk = NoChk
    /\ conv = NoConv
    /\ row = NoRow
    /\ shot = NoShot
    /\ other = NoOther

FmtNext == ReadInfoFinish

FmtSpec == FmtInit /\ [][FmtNext]_vars

\* ------------------------------------------------------------ error module
\* The error module on its own: check_err applied to a status code, known or
\* not, and Display applied to the Error it returned.
Codes ==
    (spng_errno["SPNG_IO_ERROR"] - ExtraCodes) ..
        (spng_errno["SPNG_ENOTFINAL"] + ExtraCodes)

ErrInit ==
    /\ chk \in [e : Codes, res : {"none"}, logged : {FALSE}, shown : {NoCode}]
    /\ api = "raw"
    /\ dec = [limits |-> Limits_default, output_format |-> "Png",
              decode_flags |-> {}]
    /\ png = [sig |-> TRUE, avail |-> FullLen, hdr |-> NoIhdr]
    /\ ctx = NoCtx
    /\ eng = EngNone
    /\ frees = 0
    /\ heap = {}
    /\ nalloc = 0
    /\ src = [pos |-> 0, eof |-> FALSE, err |-> FALSE]
    /\ cb = NoCb
    /\ loc = NoLoc
    /\ rd = NoReader
    /\ out_info = NoOutputInfo
    /\ ret = [op |-> "none", err |-> "Ok"]
    /\ out = NoOut
    /\ pc = "error"
    /\ ops = 0
    /\ frames = 0
    /\ ub = FALSE
    /\ conv = NoConv
    /\ row = NoRow
    /\ shot = NoShot
    /\ other = NoOther

Idle ==
    UNCHANGED <<conv, row, shot, other, api, dec, png, ctx, eng, frees, heap, nalloc, src, cb, loc,
                rd, out_info, ret, out, pc, ops, frames, ub>>

\* check_err(e)
CheckErr ==
    /\ pc = "error" /\ chk.res = "none"
    /\ chk' = [chk EXCEPT !.res = check_err(chk.e),
                          !.logged = check_err_logs(chk.e)]
    /\ Idle

\* impl fmt::Display for Error: errno = *self as i32; spng_strerror(errno)
Display ==
    /\ pc = "error" /\ chk.res \notin {"none", "Ok"} /\ chk.shown = NoCode
    /\ chk' = [chk EXCEPT !.shown = as_i32(chk.res)]
    /\ Idle

ErrNext == CheckErr \/ Display

ErrSpec == ErrInit /\ [][ErrNext]_vars

\* ------------------------------------------------------------ progressive
\* A direct user of RawContext who created a context and bound an input
\* (a stream or a slice) and goes on with get_ihdr, decode_image and the
\* scanline calls, in any order.
RowOps == {"decode_row", "decode_scanline"}

ProgInit ==
    /\ api = "raw"
    /\ dec \in [limits : {Limits_default}, output_format : {"Png", "Rgba8"},
                 decode_flags : {{}, {"PROGRESSIVE"}}]
    /\ png \in [sig : BOOLEAN, avail : 0..FullLen, hdr : {NoIhdr}]
    /\ \E stream \in BOOLEAN :
          LET n == RawContext_new(FALSE)
              s == set_png_stream(n.ctx, n.eng, {}, 1)
              b == set_png_buffer(n.eng)
          IN  /\ ctx = IF stream THEN s.ctx ELSE n.ctx
              /\ eng = IF stream THEN s.eng ELSE b.eng
              /\ heap = IF stream THEN s.heap ELSE {}
              /\ nalloc = IF stream THEN 1 ELSE 0
              /\ ret = [op |-> IF stream THEN "set_png_stream"
                                 ELSE "set_png_buffer",
                        err |-> "Ok"]
    /\ frees = 0
    /\ src = [pos |-> 0, eof |-> FALSE, err |-> FALSE]
    /\ cb = NoCb
    /\ loc = NoLoc
    /\ rd = NoReader
    /\ out_info = NoOutputInfo
    /\ out = NoOut
    /\ pc = "raw"
    /\ ops = 2
    /\ frames = 0
    /\ ub = FALSE
    /\ chk = NoChk
    /\ conv = NoConv
    /\ row = NoRow
    /\ shot = NoShot
    /\ other = NoOther

\* A scanline call: ctx.decode_row(&mut out) or ctx.decode_scanline(&mut out)
Scanline(op, r, p, len) ==
    IF p.status = "PANIC"
    THEN \E how \in PanicOutcomes : Panicked(op, p, how, out, frames)
    ELSE /\ eng' = r.eng
         /\ ret' = [op |-> op, err |-> r.err]
         /\ row' = [calls |-> row.calls + 1, state |-> eng.state,
                    len |-> len, written |-> r.written]
         /\ cb' = p.cb
         /\ src' = p.src
         /\ ub' = p.ub
         /\ UNCHANGED <<chk, conv, shot, other, api, dec, png, ctx, frees, heap,
                        nalloc, loc, rd, out_info, out, pc, ops, frames>>

DecodeRow ==
    /\ api = "raw" /\ pc = "raw" /\ ctx.live /\ row.calls < MaxRows
    /\ \E len \in {n \in {RowSize(eng.ihdr, dec.output_format) - 1,
                           RowSize(eng.ihdr, dec.output_format)} : n >= 0} :
        LET reads == ReadsRow(eng, len, dec.output_format)
        IN  \E script \in PullScripts(reads, eng, RowLen),
               any \in PullStatuses(reads, eng) :
              LET p == IF reads THEN Pull(eng, RowLen, script, any)
                       ELSE NoPull
              IN  Scanline("decode_row",
                           decode_row(eng, len, dec.output_format, p.status),
                           p, len)

DecodeScanline ==
    /\ api = "raw" /\ pc = "raw" /\ ctx.live /\ row.calls < MaxRows
    /\ \E len \in {n \in {RowSize(eng.ihdr, dec.output_format) - 1,
                           RowSize(eng.ihdr, dec.output_format)} : n >= 0} :
        LET reads == ReadsRow(eng, len, dec.output_format)
        IN  \E script \in PullScripts(reads, eng, RowLen),
               any \in PullStatuses(reads, eng) :
              LET p == IF reads THEN Pull(eng, RowLen, script, any)
                       ELSE NoPull
              IN  Scanline("decode_scanline",
                           decode_scanline(eng, len, dec.output_format,
                                           p.status),
                           p, len)

ProgNext ==
    \/ GetIhdr
    \/ DecodeImage
    \/ DecodeRow
    \/ DecodeScanline
    \/ DropOwner
    \/ DropFields

ProgSpec == ProgInit /\ [][ProgNext]_vars

\* ------------------------------------------------------------ one-shot use
\* The same input decoded twice: step by step through Decoder and Reader
\* (read_info_from_slice, output_buffer_size, next_frame), and by the
\* one-shot decode.  The input's header is fixed from the start.
OneInit ==
    /\ api = "read_info_from_slice"
    /\ dec \in [limits : {Limits_default}, output_format : Formats,
                 decode_flags : {{}}]
    /\ png \in [sig : BOOLEAN, avail : 0..FullLen, hdr : Headers]
    /\ ctx = NoCtx
    /\ eng = EngNone
    /\ frees = 0
    /\ heap = {}
    /\ nalloc = 0
    /\ src = [pos |-> 0, eof |-> FALSE, err |-> FALSE]
    /\ cb = NoCb
    /\ loc = NoLoc
    /\ rd = NoReader
    /\ out_info = NoOutputInfo
    /\ ret = [op |-> "none", err |-> "Ok"]
    /\ out = NoOut
    /\ pc = "new"
    /\ ops = 0
    /\ frames = 0
    /\ ub = FALSE
    /\ chk = NoChk
    /\ conv = NoConv
    /\ row = NoRow
    /\ shot = NoShot
    /\ other = NoOther

\* decode(input, out_format)
OneShot ==
    /\ shot = NoShot
    /\ other = NoOther
    /\ shot' = decode(png, dec.output_format)
    /\ UNCHANGED <<chk, conv, row, other, api, dec, png, ctx, eng, frees,
                   heap, nalloc, src, cb, loc, rd, out_info, ret, out, pc,
                   ops, frames, ub>>

OneNext ==
    \/ New
    \/ SetImageLimits
    \/ SetPngBuffer
    \/ GetIhdr
    \/ DecodedImageSize
    \/ ReadInfoFinish
    \/ NextFrame
    \/ DropOwner
    \/ DropFields
    \/ OneShot

OneSpec == OneInit /\ [][OneNext]_vars

\* ------------------------------------------------------------ two sessions
\* Two sessions in one process, their operations interleaved in any order:
\* a Decoder session over a stream (read_info, next_frame, drop) in the
\* variables of the single session, and a RawContext used directly in
\* `other`, over a source of its own.  They share what a process shares:
\* the heap the Boxes live on, and the process itself.
OtherHeader == [width |-> 1, height |-> 1, bit_depth |-> 8, color_type |-> 0]

TwoInit ==
    /\ api = "read_info"
    /\ dec \in [limits : {Limits_default}, output_format : {"Png", "Rgba8"},
                 decode_flags : {{}}]
    /\ png \in [sig : {TRUE}, avail : {FullLen},
                 hdr : {h \in Headers : h.width = 1 /\ h.color_type = 0}]
    /\ ctx = NoCtx
    /\ eng = EngNone
    /\ frees = 0
    /\ heap = {}
    /\ nalloc = 0
    /\ src = [pos |-> 0, eof |-> FALSE, err |-> FALSE]
    /\ cb = NoCb
    /\ loc = NoLoc
    /\ rd = NoReader
    /\ out_info = NoOutputInfo
    /\ ret = [op |-> "none", err |-> "Ok"]
    /\ out = NoOut
    /\ pc = "new"
    /\ ops = 0
    /\ frames = 0
    /\ ub = FALSE
    /\ chk = NoChk
    /\ conv = NoConv
    /\ row = NoRow
    /\ shot = NoShot
    /\ other = NoOther

\* The process is running: no panic has aborted it.
Running == pc # "aborted" /\ other.pc # "aborted"

\* What a step of the second context leaves alone unless said otherwise.
OtherOnly ==
    UNCHANGED <<chk, conv, row, shot, api, dec, png, ctx, eng, frees, cb, loc,
                rd, out_info, ret, out, ops, frames, ub>>

\* RawContext::new() of the second context
OtherNew ==
    /\ Running /\ other.pc = "start"
    /\ LET r == RawContext_new(FALSE)
       IN  other' = [other EXCEPT !.pc = "live", !.ctx = r.ctx,
                                  !.eng = r.eng, !.ret = r.err]
    /\ OtherOnly
    /\ UNCHANGED <<heap, nalloc, src, pc>>

\* set_png_stream(reader) of the second context
OtherSetPngStream ==
    /\ Running /\ other.pc = "live" /\ other.binds < MaxBinds
    /\ LET r == set_png_stream(other.ctx, other.eng, heap, nalloc + 1)
       IN  /\ other' = [other EXCEPT !.ctx = r.ctx, !.eng = r.eng,
                                     !.binds = other.binds + 1,
                                     !.ret = r.err]
           /\ heap' = r.heap
    /\ nalloc' = nalloc + 1
    /\ OtherOnly
    /\ UNCHANGED <<src, pc>>

\* What get_ihdr of the second context can come to.  Its engine calls
\* read_fn with the user pointer it holds.  On a live Box the context's own
\* source is read, and returns the bytes or panics; the panic either aborts
\* the process or unwinds through the engine and drops the context.  On the
\* address of a Box that was destroyed the dereference is undefined: the
\* block may be unused, and anything comes back, or it may by now hold
\* another live Box of the process, and then that Box's reader is read.
OtherGetIhdrOutcomes ==
    LET e == other.eng
        same == [other |-> other, heap |-> heap, src |-> src, pc |-> pc]
        done(status, pos, undefined) ==
            LET r == get_ihdr(e, status, TRUE, OtherHeader)
            IN  [same EXCEPT
                    !.other = [other EXCEPT !.eng = r.eng, !.ret = r.err,
                                            !.pos = pos,
                                            !.reads = other.reads + 1,
                                            !.ub = other.ub \/ undefined]]
        aborted ==
            [same EXCEPT !.pc = "aborted",
                         !.other = [other EXCEPT !.pc = "aborted",
                                                 !.ret = "Panic"]]
        unwound ==
            LET d == drop_ctx(other.ctx, e, heap, other.frees)
            IN  [same EXCEPT !.heap = d.heap,
                             !.other = [other EXCEPT !.pc = "dropped",
                                                     !.ctx = d.ctx,
                                                     !.eng = d.eng,
                                                     !.frees = d.frees,
                                                     !.ret = "Panic",
                                                     !.ub = TRUE]]
        stray ==
            LET c == read_fn([i \in 1..HdrLen |-> 1], HdrLen, png.avail,
                             src.pos)
                o == done(c.status, other.pos, TRUE)
            IN  [o EXCEPT !.src = [src EXCEPT !.pos = src.pos + c.offset,
                                              !.eof = src.eof
                                                      \/ c.status
                                                          = "SPNG_IO_EOF"]]
    IN  IF ~ReadsHeader(e) THEN {done("SPNG_OK", other.pos, FALSE)}
        ELSE IF ~Dangling(e)
        THEN {done(slice_status(FullLen, other.pos, HdrLen),
                   other.pos + HdrLen, FALSE),
              aborted, unwound}
        ELSE {done(st, other.pos, TRUE) : st \in CbStatuses}
             \cup (IF ctx.reader \in heap THEN {stray} ELSE {})

\* get_ihdr() of the second context
OtherGetIhdr ==
    /\ Running /\ other.pc = "live" /\ other.reads < 1
    /\ \E o \in OtherGetIhdrOutcomes :
          /\ other' = o.other
          /\ heap' = o.heap
          /\ src' = o.src
          /\ pc' = o.pc
    /\ OtherOnly
    /\ UNCHANGED nalloc

\* The second context goes out of scope.
OtherDrop ==
    /\ Running /\ other.pc = "live"
    /\ LET d == drop_ctx(other.ctx, other.eng, heap, other.frees)
       IN  /\ other' = [other EXCEPT !.pc = "dropped", !.ctx = d.ctx,
                                     !.eng = d.eng, !.frees = d.frees]
           /\ heap' = d.heap
    /\ OtherOnly
    /\ UNCHANGED <<nalloc, src, pc>>

TwoNext ==
    \/ New
    \/ SetImageLimits
    \/ SetPngStream
    \/ GetIhdr
    \/ DecodedImageSize
    \/ ReadInfoFinish
    \/ NextFrame
    \/ DropOwner
    \/ DropFields
    \/ OtherNew
    \/ OtherSetPngStream
    \/ OtherGetIhdr
    \/ OtherDrop

TwoSpec == TwoInit /\ [][TwoNext]_vars

\* ------------------------------------------------------------ conversions
\* The byte conversions on their own: ColorType::try_from, samples and
\* BitDepth::try_from applied to every u8.
Bytes == 0..255

ConvInit ==
    /\ conv \in [value : Bytes, ct : {NoVal}, n : {0}, bd : {NoVal},
                  u8 : {0}]
    /\ row = NoRow
    /\ shot = NoShot
    /\ other = NoOther
    /\ chk = NoChk
    /\ api = "raw"
    /\ dec = [limits |-> Limits_default, output_format |-> "Png",
              decode_flags |-> {}]
    /\ png = [sig |-> TRUE, avail |-> FullLen, hdr |-> NoIhdr]
    /\ ctx = NoCtx
    /\ eng = EngNone
    /\ frees = 0
    /\ heap = {}
    /\ nalloc = 0
    /\ src = [pos |-> 0, eof |-> FALSE, err |-> FALSE]
    /\ cb = NoCb
    /\ loc = NoLoc
    /\ rd = NoReader
    /\ out_info = NoOutputInfo
    /\ ret = [op |-> "none", err |-> "Ok"]
    /\ out = NoOut
    /\ pc = "convert"
    /\ ops = 0
    /\ frames = 0
    /\ ub = FALSE

\* ColorType::try_from(value)
ColorTypeTryFrom ==
    /\ pc = "convert" /\ conv.ct = NoVal
    /\ conv' = [conv EXCEPT !.ct = ColorType_try_from(conv.value)]
    /\ UNCHANGED <<chk, row, shot, other, api, dec, png, ctx, eng, frees, heap,
                   nalloc,
                   src, cb, loc, rd, out_info, ret, out, pc, ops, frames, ub>>

\* color_type.samples()
Samples ==
    /\ pc = "convert" /\ conv.ct.err = "Ok" /\ conv.n = 0
    /\ conv' = [conv EXCEPT !.n = samples(conv.ct.val)]
    /\ UNCHANGED <<chk, row, shot, other, api, dec, png, ctx, eng, frees, heap,
                   nalloc,
                   src, cb, loc, rd, out_info, ret, out, pc, ops, frames, ub>>

\* BitDepth::try_from(value), and the variant `as u8`
BitDepthTryFrom ==
    /\ pc = "convert" /\ conv.bd = NoVal
    /\ LET r == BitDepth_try_from(conv.value)
       IN  conv' = [conv EXCEPT !.bd = r,
                                !.u8 = IF r.err = "Ok"
                                       THEN BitDepth_as_u8[r.val] ELSE 0]
    /\ UNCHANGED <<chk, row, shot, other, api, dec, png, ctx, eng, frees, heap,
                   nalloc,
                   src, cb, loc, rd, out_info, ret, out, pc, ops, frames, ub>>

ConvNext == ColorTypeTryFrom \/ Samples \/ BitDepthTryFrom

ConvSpec == ConvInit /\ [][ConvNext]_vars

\* ------------------------------------------------------------ the callback
\* read_fn on its own: one invocation for a requested length from 0 to
\* CbLen, over every source behaviour and every position in the input.
CbInit ==
    /\ cb = NoCb
    /\ pc = "callback"
    /\ conv = NoConv
    /\ row = NoRow
    /\ shot = NoShot
    /\ other = NoOther
    /\ chk = NoChk
    /\ api = "raw"
    /\ dec = [limits |-> Limits_default, output_format |-> "Png",
              decode_flags |-> {}]
    /\ png = [sig |-> TRUE, avail |-> FullLen, hdr |-> NoIhdr]
    /\ ctx = NoCtx
    /\ eng = EngNone
    /\ frees = 0
    /\ heap = {}
    /\ nalloc = 0
    /\ src = [pos |-> 0, eof |-> FALSE, err |-> FALSE]
    /\ loc = NoLoc
    /\ rd = NoReader
    /\ out_info = NoOutputInfo
    /\ ret = [op |-> "none", err |-> "Ok"]
    /\ out = NoOut
    /\ ops = 0
    /\ frames = 0
    /\ ub = FALSE

\* read_fn(ctx, user, dest, len)
ReadFn ==
    /\ pc = "callback"
    /\ \E len \in 0..CbLen, avail \in 0..FullLen :
         \E script \in Scripts(len), base \in 0..avail :
            cb' = read_fn(script, len, avail, base)
    /\ pc' = "called"
    /\ UNCHANGED <<chk, conv, row, shot, other, api, dec, png, ctx, eng, frees, heap, nalloc,
                   src, loc, rd, out_info, ret, out, ops, frames, ub>>

CbNext == ReadFn

CbSpec == CbInit /\ [][CbNext]_vars


\* ------------------------------------------------------------ properties
DecodeOps == {"next_frame", "decode_image"}
BindOps == {"set_png_stream", "set_png_buffer"}

\* C1: a native handle, once created, is freed exactly once on every path of
\* its owner: while the handle is live its RawContext exists and no free has
\* happened; once the RawContext is gone (a failing step of read_info, the
\* Reader or the RawContext dropped, with or without a header read or a
\* decode) spng_ctx_free has been called exactly once; it is never called
\* twice, and never when no handle was created.
C1_FreedExactlyOnce ==
    /\ frees <= 1
    /\ eng.alloc = "none" => frees = 0 /\ ~ctx.live
    /\ eng.alloc = "live" => frees = 0 /\ ctx.live
    /\ eng.alloc = "freed" => frees = 1 /\ ~ctx.live
    /\ pc \in {"failed", "done"} => eng.alloc # "live"

C1_Witness ==
    /\ pc = "failed" /\ ret.op = "ihdr" /\ ret.err # "Ok"
    /\ eng.alloc = "freed" /\ frees = 1

\* C2: decode runs at most once per handle: every decode call made after an
\* earlier one on the same session returns a state-class error, never Ok, and
\* stores nothing in the buffer it is given.
C2_DecodeOnce ==
    (ret.op \in DecodeOps /\ frames >= 2) =>
        /\ out.again
        /\ ret.err \in StateErrors
        /\ out.written = 0

C2_Witness ==
    /\ ret.op = "next_frame" /\ frames = 2 /\ eng.state = "EOI"
    /\ ret.err \in StateErrors /\ out.len = rd.output_buffer_size

\* The input is a complete PNG with the right signature, and the source has
\* handed it over without a failing read.
WellFormedInput == png.sig /\ png.avail = FullLen /\ ~src.err

FirstFullFrame ==
    /\ api # "raw" /\ ret.op = "next_frame" /\ frames = 1
    /\ WellFormedInput
    /\ out.len = output_buffer_size(rd)

FrameFilled ==
    /\ ret.err = "Ok"
    /\ out.written = out.len
    /\ out_info.buffer_size = out.len

\* C3 as stated: for a well-formed input, any output format and any decode
\* flags, next_frame after read_info with a buffer of output_buffer_size()
\* bytes succeeds and fills the buffer, and OutputInfo.buffer_size is that
\* length.
C3_AnyFlagsFillBuffer == FirstFullFrame => FrameFilled

\* C3 amended: the same for decode flags that do not include PROGRESSIVE.
C3_FillBuffer ==
    (FirstFullFrame /\ "PROGRESSIVE" \notin rd.decode_flags) => FrameFilled

C3_Witness ==
    /\ FirstFullFrame /\ FrameFilled /\ out.len > 1
    /\ rd.decode_flags = {"TRANSPARENCY"} /\ rd.out_format = "Rgba16"
    /\ api = "read_info" /\ Len(cb.seen) = 2

\* A first decode call on a context whose header is read, with a buffer
\* shorter than the decoded size for the call's format.
ShortBuffer ==
    /\ ret.op \in DecodeOps /\ out.state = "IHDR" /\ ~out.again
    /\ out.len < out.need

\* C4 as stated: decode with a buffer shorter than decoded_image_size returns
\* Bufsiz, stores no byte outside the buffer, and the engine is given the
\* slice's length.
C4_ShortBufferIsBufsiz ==
    /\ ShortBuffer => ret.err = "Bufsiz"
    /\ ret.op \in DecodeOps => out.written <= out.len /\ out.passed = out.len

\* C4 amended: Bufsiz is returned when the flags do not include PROGRESSIVE;
\* with PROGRESSIVE the buffer is ignored.  In every decode call nothing is
\* stored outside the buffer and the engine is given the slice's length.
C4_ShortBuffer ==
    /\ (ShortBuffer /\ "PROGRESSIVE" \notin out.flags) =>
            ret.err = "Bufsiz" /\ out.written = 0
    /\ ret.op \in DecodeOps => out.written <= out.len /\ out.passed = out.len

C4_Witness ==
    /\ ShortBuffer /\ "PROGRESSIVE" \notin out.flags
    /\ ret.err = "Bufsiz" /\ out.len > 0

\* C5: while the native handle exists, the user pointer registered with the
\* engine is the address of a live Box, the one the RawContext owns.
C5_UserPointerLive ==
    (eng.alloc = "live" /\ eng.src = "stream") =>
        eng.user \in heap /\ eng.user = ctx.reader

\* C6: a set_png_stream / set_png_buffer call on a context whose input is
\* already set returns an error and leaves the registered source and the
\* reader the context owns as they were.
C6_SecondBindKeepsFirst ==
    [][((SetPngStream \/ SetPngBuffer) /\ eng.src # "none") =>
            /\ ret'.err # "Ok"
            /\ eng'.src = eng.src /\ eng'.user = eng.user
            /\ ctx'.reader = ctx.reader /\ heap' = heap]_vars

\* C7: a decode call on a context whose header has not been read returns a
\* state-class error, never Ok; and a Reader exists only over a context
\* whose header was read, so next_frame never finds the header unread.
C7_NoDecodeBeforeHeader ==
    /\ (ret.op \in DecodeOps /\ out.state = "INIT") =>
            ret.err \in StateErrors /\ out.written = 0
    /\ rd.live => eng.state \notin {"INIT"} /\ rd.info = from_header(eng.ihdr).val
    /\ ret.op = "next_frame" => out.state # "INIT"

C7_Witness ==
    /\ ret.op = "decode_image" /\ out.state = "INIT" /\ eng.src = "stream"
    /\ ret.err = "Badstate"

\* The callback as it returned: the cells of dest below offset hold the
\* input bytes in order, the cells from offset on are untouched.
RECURSIVE SumOk(_)
SumOk(seen) ==
    IF seen = <<>> THEN 0
    ELSE (IF Head(seen) > 0 THEN Head(seen) ELSE 0) + SumOk(Tail(seen))

\* C8: read_fn returns SPNG_OK exactly when offset has reached len, after
\* retrying partial reads on dest[offset..]; on OK all len bytes of dest are
\* filled, in input order, and in every case the bytes below offset are the
\* ones the earlier reads put there.
C8_FullReadOrSentinel ==
    cb.status # "none" =>
        /\ (cb.status = "SPNG_OK") <=> (cb.offset = cb.len)
        /\ cb.offset <= cb.len
        /\ cb.offset = SumOk(cb.seen)
        /\ \A i \in 1..cb.len :
              cb.dest[i] = IF i <= cb.offset THEN cb.base + i ELSE 0

C8_Witness ==
    /\ cb.status = "SPNG_OK" /\ cb.len = HdrLen /\ Len(cb.seen) = HdrLen
    /\ cb.dest = [i \in 1..cb.len |-> cb.base + i]

\* C9: a read that returns 0 before len is reached ends the callback at once
\* with SPNG_IO_EOF, whatever was filled before: it is the last read made.
C9_ZeroReadIsEof ==
    \A k \in 1..Len(cb.seen) :
        cb.seen[k] = 0 =>
            /\ k = Len(cb.seen)
            /\ cb.status = "SPNG_IO_EOF"
            /\ cb.offset < cb.len

C9_Witness ==
    /\ cb.status = "SPNG_IO_EOF" /\ cb.offset > 0
    /\ cb.seen[Len(cb.seen)] = 0

\* C10: a failing read ends the callback at once with SPNG_IO_ERROR: it is
\* the last read made, it is not retried.
C10_ReadErrorIsIoError ==
    \A k \in 1..Len(cb.seen) :
        cb.seen[k] = ReadErr =>
            /\ k = Len(cb.seen)
            /\ cb.status = "SPNG_IO_ERROR"

C10_Witness ==
    /\ cb.status = "SPNG_IO_ERROR" /\ cb.offset > 0
    /\ cb.seen[Len(cb.seen)] = ReadErr

\* C11: a panic raised by the source's read during a callback is caught in
\* read_fn and turned into SPNG_IO_ERROR: the callback returns that status to
\* the engine, and the panic neither ends the process nor unwinds through
\* the engine's frames.
C11_PanicIsIoError ==
    \A k \in 1..Len(cb.seen) :
        cb.seen[k] = ReadPanic =>
            /\ cb.status = "SPNG_IO_ERROR"
            /\ pc \notin {"aborted", "unwound"}

\* The values of the status constants the match of check_err names.
KnownCodes == {spng_errno[c] : c \in DOMAIN spng_errno}

C13_TableRoundTrips ==
    /\ \A k \in DOMAIN Discriminant : check_err(as_i32(k)) = k
    /\ (chk.res \notin {"none", "Ok"} /\ chk.e \in KnownCodes) =>
            as_i32(chk.res) = chk.e
    /\ chk.shown # NoCode => check_err(chk.shown) = chk.res

C13_Witness ==
    /\ chk.res = "NotFinal" /\ chk.e = spng_errno["SPNG_ENOTFINAL"]
    /\ chk.shown = chk.e

\* C14: the output buffer size for the output format is stable: every
\* decoded_image_size call made once the header is read returns what the
\* first one returned, the engine's size of the image in that format; a call
\* leaves the handle, the source, the callback record and the owned reader as
\* they were, so no byte of the input is consumed; and
\* Reader::output_buffer_size() is that same value for as long as the Reader
\* lives.
C14_SizeStable ==
    /\ [](/\ (ret.op = "size" /\ ret.err = "Ok") =>
                /\ loc.output_buffer_size = loc.first
                /\ loc.first = ImageSize(eng.ihdr, dec.output_format)
          /\ rd.live =>
                /\ output_buffer_size(rd) = loc.first
                /\ output_buffer_size(rd) = ImageSize(eng.ihdr, rd.out_format))
    /\ [][(DecodedImageSize /\ ret'.err = "Ok") =>
                UNCHANGED <<eng, ctx, heap, src, cb, rd, out, ub>>]_vars

C14_Witness ==
    /\ ret.op = "size" /\ ret.err = "Ok" /\ loc.calls = 2
    /\ loc.output_buffer_size = loc.first /\ loc.first > 1
    /\ eng.state = "IHDR" /\ src.pos = HdrLen

\* The engine was handed every byte it asked for while reading the header.
HeaderDelivered == src.pos >= HdrLen /\ ~src.err /\ ~src.eof /\ ~ub

ColorNames ==
    0 :> "Grayscale" @@ 2 :> "Truecolor" @@ 3 :> "Indexed" @@
    4 :> "GrayscaleAlpha" @@ 6 :> "TruecolorAlpha"

\* C17: the OutputInfo derived from a parsed header: width and height are
\* the header's; for Png and Raw the colour type and bit depth are the
\* header's; for Rgb8 they are Truecolor / 8, for Rgba8 TruecolorAlpha / 8,
\* for Rgba16 TruecolorAlpha / 16, whatever the header says; so a grayscale
\* source decoded to Rgba8 or Rgba16 reports TruecolorAlpha, 4 samples per
\* pixel.
C17_OutputDerivation ==
    pc = "reader" =>
        LET h == loc.header
            f == dec.output_format
        IN  /\ out_info.width = h.width /\ out_info.height = h.height
            /\ f \in {"Png", "Raw"} =>
                    /\ BitDepth_as_u8[out_info.bit_depth] = h.bit_depth
                    /\ out_info.color_type = ColorNames[h.color_type]
            /\ f = "Rgb8" =>
                    out_info.color_type = "Truecolor"
                        /\ BitDepth_as_u8[out_info.bit_depth] = 8
            /\ f = "Rgba8" =>
                    out_info.color_type = "TruecolorAlpha"
                        /\ BitDepth_as_u8[out_info.bit_depth] = 8
            /\ f = "Rgba16" =>
                    out_info.color_type = "TruecolorAlpha"
                        /\ BitDepth_as_u8[out_info.bit_depth] = 16
            /\ (h.color_type = 0 /\ f \in {"Rgba8", "Rgba16"}) =>
                    samples(out_info.color_type) = 4

C17_Witness ==
    /\ pc = "reader" /\ loc.header.color_type = 0
    /\ loc.header.bit_depth = 1 /\ dec.output_format = "Rgba8"
    /\ out_info.color_type = "TruecolorAlpha"
    /\ out_info.bit_depth = "Eight"
    /\ samples(out_info.color_type) = 4 /\ out_info.width = MaxDim

\* C18: when read_info / read_info_from_slice succeeds, the OutputInfo it
\* returns is the one derived for the configured output format, and its
\* buffer_size is the Reader's output_buffer_size(), the engine's decoded
\* size for that format; when the size query or the header conversion fails,
\* the function fails: no Reader and no OutputInfo is produced.
C18_InfoCached ==
    /\ (api # "raw" /\ pc = "reader") =>
            /\ rd.live /\ rd.out_format = dec.output_format
            /\ out_info.buffer_size = output_buffer_size(rd)
            /\ output_buffer_size(rd) = ImageSize(eng.ihdr, dec.output_format)
            /\ ~Overflows(eng.ihdr, dec.output_format)
            /\ out_info =
                  output_info(rd.info, dec.output_format, loc.first)
    /\ (api # "raw" /\ ret.op \in {"size", "info"} /\ ret.err # "Ok") =>
            /\ pc = "failed"
            /\ rd = NoReader /\ out_info = NoOutputInfo
            /\ eng.alloc = "freed"

C18_Witness ==
    /\ api = "read_info" /\ pc = "reader" /\ frames = 0 /\ rd.live
    /\ out_info.buffer_size = rd.output_buffer_size
    /\ rd.output_buffer_size = ImageSize(eng.ihdr, "Rgba16")
    /\ dec.output_format = "Rgba16" /\ eng.ihdr.width = MaxDim

\* C19: once a Reader exists, info() and output_buffer_size() stay what they
\* were: no step, next_frame succeeding or failing included, changes the
\* Reader's info, output format, decode flags or output_buffer_size, and
\* the handle keeps its parsed header and never goes back to the state
\* before the header was read.
C19_ReaderStable ==
    /\ [](rd.live =>
            /\ eng.state # "INIT"
            /\ rd.info = from_header(eng.ihdr).val
            /\ output_buffer_size(rd) = ImageSize(eng.ihdr, rd.out_format))
    /\ [][rd.live =>
            /\ rd'.info = rd.info
            /\ rd'.out_format = rd.out_format
            /\ rd'.decode_flags = rd.decode_flags
            /\ output_buffer_size(rd') = output_buffer_size(rd)
            /\ eng'.ihdr = eng.ihdr
            /\ eng'.state # "INIT"]_vars

C19_Witness ==
    /\ rd.live /\ frames = 2 /\ ret.op = "next_frame" /\ ret.err # "Ok"
    /\ eng.state = "INVALID" /\ rd.info = from_header(eng.ihdr).val
    /\ output_buffer_size(rd) > 1

\* The limits of the Decoder are the ones set on the handle.
LimitsApplied ==
    /\ eng.max_width = dec.limits.max_width
    /\ eng.max_height = dec.limits.max_height

\* C20: in read_info / read_info_from_slice the configured limits are on
\* the handle before the input is bound and before any byte of the source
\* is read; the default limits are 2^31 - 2 for both.
C20_LimitsFirst ==
    /\ Limits_default =
          [max_width |-> U32(2147483646), max_height |-> U32(2147483646)]
    /\ api # "raw" =>
          /\ (eng.src # "none" \/ ret.op \in BindOps \/ pc = "bind") =>
                LimitsApplied
          /\ (src.pos > 0 \/ src.eof \/ src.err \/ cb.status # "none") =>
                LimitsApplied /\ eng.src # "none"
          /\ ~LimitsApplied => pc \in {"new", "limits", "failed"}

C20_Witness ==
    /\ api = "read_info" /\ dec.limits = Limits_default
    /\ eng.src = "stream" /\ src.pos = 0 /\ cb.status = "none"
    /\ pc = "ihdr"
    /\ eng.max_width = U32(2147483646) /\ eng.max_height = U32(2147483646)

\* One of the Decoder's limits is above 2^31 - 1.
AboveCeiling ==
    \/ U32Gt(dec.limits.max_width, SPNG_LIMIT_CEILING)
    \/ U32Gt(dec.limits.max_height, SPNG_LIMIT_CEILING)

\* C21: set_image_limits with a limit above 2^31 - 1 returns Inval and sets
\* nothing; in read_info / read_info_from_slice that error is returned
\* before the input is bound: no reader is boxed, no byte of the source is
\* read, no Reader is produced.
C21_LimitAboveCeilingIsInval ==
    AboveCeiling =>
        /\ ret.op = "limits" =>
                /\ ret.err = "Inval"
                /\ eng.max_width = SPNG_LIMIT_CEILING
                /\ eng.max_height = SPNG_LIMIT_CEILING
        /\ api # "raw" =>
                /\ pc \in {"new", "limits", "failed"}
                /\ eng.src = "none" /\ nalloc = 0 /\ heap = {}
                /\ src.pos = 0 /\ cb.status = "none"
                /\ rd = NoReader /\ out_info = NoOutputInfo

C21_Witness ==
    /\ api = "read_info" /\ AboveCeiling /\ ret.op = "limits"
    /\ ret.err = "Inval" /\ pc = "failed" /\ eng.alloc = "freed"
    /\ dec.limits.max_width = U32Succ(SPNG_LIMIT_CEILING)

\* The header of the input is wider or higher than the Decoder's limits.
ExceedsLimits ==
    /\ png.hdr # NoIhdr
    /\ \/ U32Gt(U32(png.hdr.width), dec.limits.max_width)
       \/ U32Gt(U32(png.hdr.height), dec.limits.max_height)

C24_HandleNonNull ==
    /\ [](/\ ret.op = "new" =>
                /\ (ret.err = "Mem") <=> (eng.alloc = "none")
                /\ (ret.err = "Mem") => ~ctx.live
                /\ ret.err \in {"Ok", "Mem"}
                /\ eng.src = "none" /\ src.pos = 0 /\ cb.status = "none"
          /\ ctx.live => ctx.raw = "ptr" /\ eng.alloc = "live")
    /\ [][(ctx.live /\ ctx'.live) => ctx'.raw = ctx.raw]_vars

C24_Witness ==
    /\ ctx.live /\ ctx.raw = "ptr" /\ eng.alloc = "live"
    /\ ret.op \in DecodeOps /\ eng.state = "EOI"

\* C26: ColorType::try_from accepts exactly the five colour-type codes
\* 0, 2, 3, 4, 6 (Grayscale, Truecolor, Indexed, GrayscaleAlpha,
\* TruecolorAlpha) and returns Err(ColorType) for every other byte;
\* samples is 1 for Grayscale and Indexed, 2 for GrayscaleAlpha, 3 for
\* Truecolor and 4 for TruecolorAlpha.
C26_ColorTypeSamples ==
    /\ conv.ct # NoVal =>
            /\ (conv.ct.err = "Ok") <=> (conv.value \in DOMAIN ColorNames)
            /\ conv.ct.err = "Ok" => conv.ct.val = ColorNames[conv.value]
            /\ conv.ct.err # "Ok" =>
                    conv.ct.err = "ColorType" /\ conv.ct.val = "none"
    /\ conv.n # 0 =>
            conv.n = CASE conv.ct.val \in {"Grayscale", "Indexed"} -> 1
                       [] conv.ct.val = "GrayscaleAlpha" -> 2
                       [] conv.ct.val = "Truecolor" -> 3
                       [] conv.ct.val = "TruecolorAlpha" -> 4

C26_Witness ==
    /\ pc = "convert" /\ conv.value = 3 /\ conv.ct.val = "Indexed"
    /\ conv.n = 1

\* C27: BitDepth::try_from succeeds exactly for 1, 2, 4, 8 and 16, with the
\* variant whose numeric value is the byte (the variant `as u8` is the
\* byte), and returns Err(BitDepth) for each of the other 251 bytes.
C27_BitDepthExact ==
    /\ Cardinality(Bytes \ {1, 2, 4, 8, 16}) = 251
    /\ conv.bd # NoVal =>
            /\ (conv.bd.err = "Ok") <=> (conv.value \in {1, 2, 4, 8, 16})
            /\ conv.bd.err = "Ok" => conv.u8 = conv.value
            /\ conv.bd.err # "Ok" =>
                    conv.bd.err = "BitDepth" /\ conv.bd.val = "none"

C27_Witness ==
    /\ pc = "convert" /\ conv.value = 16 /\ conv.bd.val = "Sixteen"
    /\ conv.u8 = 16

\* The offset after the read calls listed in seen: the sum of the counts.
RECURSIVE Advance(_)
Advance(seen) ==
    IF seen = <<>> THEN 0
    ELSE (IF Head(seen) > 0 THEN Head(seen) ELSE 0) + Advance(Tail(seen))

\* C30: one invocation of read_fn for len bytes makes at most len read
\* calls: every call but a last one that returned a sentinel (Ok(0), Err,
\* or a panic) advanced offset by at least one, offset is the sum of the
\* counts read and never exceeds len, the callback returns OK exactly when
\* offset reached len, and for len = 0 it returns OK without calling read.
C30_ReadFnTerminates ==
    cb.status # "none" =>
        /\ Len(cb.seen) <= cb.len
        /\ \A i \in 1..Len(cb.seen) : cb.seen[i] > 0 \/ i = Len(cb.seen)
        /\ cb.offset = Advance(cb.seen)
        /\ cb.offset <= cb.len
        /\ (cb.status = "SPNG_OK") <=>
                (cb.offset = cb.len /\ \A i \in 1..Len(cb.seen) : cb.seen[i] > 0)
        /\ cb.len = 0 => (cb.status = "SPNG_OK" /\ cb.seen = <<>>)

C30_Witness ==
    /\ pc = "called" /\ cb.len = CbLen /\ cb.status = "SPNG_OK"
    /\ Len(cb.seen) = CbLen /\ \A i \in 1..CbLen : cb.seen[i] = 1

C30_WitnessZero ==
    pc = "called" /\ cb.len = 0 /\ cb.status = "SPNG_OK" /\ cb.seen = <<>>

\* C29: when a RawContext that owns a boxed reader is dropped, the handle
\* is freed first, while the Box is still alive, and the Box is destroyed
\* only afterwards: in the state between the two the handle is freed and
\* the owned Box is intact, the next step destroys exactly that Box, and
\* once the handle is freed no callback runs and nothing is read from the
\* source.
C29_HandleFreedBeforeBox ==
    /\ [](pc = "dropping" =>
            /\ eng.alloc = "freed" /\ frees = 1
            /\ ctx.reader # 0 => ctx.reader \in heap)
    /\ [][pc = "dropping" =>
            /\ heap' = heap \ {ctx.reader}
            /\ eng' = eng /\ frees' = frees]_vars
    /\ [][eng.alloc = "freed" =>
            /\ cb' = cb /\ src' = src /\ ub' = ub
            /\ eng'.alloc = "freed"]_vars

C29_Witness ==
    /\ pc = "dropping" /\ eng.alloc = "freed" /\ eng.src = "stream"
    /\ ctx.reader # 0 /\ ctx.reader \in heap /\ eng.user = ctx.reader
    /\ cb.status = "SPNG_OK" /\ frames > 0

\* C28: decode_row and decode_scanline succeed only on a context that
\* decode_image initialised with the PROGRESSIVE flag, and that decode_image
\* call decoded nothing and stored nothing in its out buffer, whatever its
\* length; the call that delivers the last scanline returns Oi, and so does
\* every decode_row / decode_scanline call after it.  (Said of the calls
\* that return; a call the source's panic cut short returns nothing.)
C28_ProgressiveOrder ==
    /\ eng.state = "PROGRESSIVE" =>
            "PROGRESSIVE" \in out.flags /\ out.written = 0
    /\ (ret.op \in RowOps /\ ret.err # "Panic") =>
            /\ ret.err = "Ok" =>
                    /\ row.state = "PROGRESSIVE"
                    /\ "PROGRESSIVE" \in out.flags /\ out.written = 0
                    /\ eng.rows < eng.ihdr.height
            /\ row.written > 0 =>
                    /\ row.state = "PROGRESSIVE"
                    /\ ret.err \in {"Ok", "Oi"}
            /\ (row.written > 0 /\ eng.rows = eng.ihdr.height) =>
                    ret.err = "Oi"
            /\ row.state = "EOI" => (ret.err = "Oi" /\ row.written = 0)

C28_Witness ==
    /\ ret.op = "decode_scanline" /\ ret.err = "Oi" /\ row.state = "EOI"
    /\ row.calls = MaxRows /\ eng.rows = eng.ihdr.height
    /\ eng.ihdr.height = MaxDim /\ out.len = 0
    /\ "PROGRESSIVE" \in out.flags

\* The stepwise protocol has come to its result: read_info_from_slice
\* failed (for another reason than the allocation of the handle), or it
\* succeeded and next_frame was called once with a buffer of exactly
\* output_buffer_size bytes.
StepwiseFailed == pc = "failed" /\ ret.op # "new"
StepwiseDecoded ==
    /\ pc = "reader" /\ frames = 1 /\ ret.op = "next_frame"
    /\ out.len = rd.output_buffer_size

SessionState ==
    <<api, dec, png, ctx, eng, frees, src, cb, loc, rd, out_info, ret, out,
      pc, ops, frames, ub>>

\* C23: two independently constructed sessions over two different sources
\* do not depend on each other: under any interleaving, no operation of the
\* second context changes anything of the first session (its source, its
\* handle, its results, its progress), so that the session's results and
\* final state are those of the session run alone; and the Box the
\* session's handle points to stays alive whatever the other does.
C23_SessionsIndependent ==
    /\ [][other' # other => UNCHANGED SessionState]_vars
    /\ [](ctx.live /\ eng.src = "stream" => eng.user \in heap)

\* C23, as far as it holds: an operation of the second context that runs
\* into neither a panicking read nor a destroyed Box changes nothing of
\* the first session.
C23_IndependentWithoutDefects ==
    [][(other' # other /\ other'.ret # "Panic" /\ ~other'.ub)
            => UNCHANGED SessionState]_vars

\* The read of the second context's engine through a stale user pointer
\* landed on the first session's reader: the session's source has moved
\* though the session has not read from it yet.
C23_StrayRead ==
    /\ other.ub /\ other.reads = 1 /\ other.binds = MaxBinds
    /\ pc = "ihdr" /\ cb = NoCb /\ src.pos = HdrLen

====
